---- MODULE Spec2Model ----
(***************************************************************************)
(* Model of the process supervisor of unified-server.js (class             *)
(* UnifiedServer): health-gated startup of the three services, the        *)
(* bounded restart policy, and the idempotent shutdown sequence.           *)
(*                                                                         *)
(* One TLA+ step is one turn of the Node.js event loop: a callback runs to *)
(* completion together with the microtasks and process.nextTick callbacks  *)
(* it queues.  Time is not measured: a timer that has been armed may fire  *)
(* at any later turn.  The polling loop of waitForHealthcheck touches no   *)
(* field of the supervisor, so its polls are folded into the one step in   *)
(* which it returns; every other event may happen while it is waiting.     *)
(***************************************************************************)
EXTENDS Integers, Sequences, FiniteSets, TLC

\* ---------------------------------------------------------------- bounds
\* Number of sessions the registry creates in one run.
MaxSessions == 2

\* Number of requests the stagehand server accepts in one run.
MaxRequests == 3

\* Number of termination signals (or uncaught faults) the stagehand server
\* receives in one run.
MaxSignals == 2

\* Number of external shutdown triggers (signals, uncaught exceptions,
\* unhandled rejections) delivered to the supervisor in one run.
MaxTriggers == 2

\* Number of child processes spawned in a run of the fair specification.
MaxSpawns == 4

\* ------------------------------------------------------ program constants
maxRestarts == 3
maxAttempts == 30

Services == {"stagehand", "backend", "frontend"}

VARIABLES
    processes,        \* this.processes: service -> index of its handle, 0 = null
    handles,          \* every ChildProcess ever spawned, per service
    restartCounts,    \* this.restartCounts
    restartTimers,    \* pending setTimeout(restartDelay) callbacks per service
    isShuttingDown,   \* this.isShuttingDown
    shutdownPromises, \* per service: the race pushed by shutdown()
    exitCode,         \* the exitCode argument of the shutdown() that runs
    logStreamOpen,    \* this.logStream has not been end()ed
    exited,           \* process.exit has been called
    exitStatus,       \* the status passed to process.exit
    hist,             \* history counters (not program state)
    startPc,          \* position of start()
    lastHealth,       \* the waitForHealthcheck call that returned last
    triggers,         \* number of external triggers delivered
    firstTrigger,     \* what caused the shutdown that runs
    poll,             \* one call of waitForHealthcheck, poll by poll
    sessions,         \* the Map `sessions` of the stagehand server, in
                      \* insertion order: records [localId, bbSessionId]
    minted,           \* number of local session identifiers minted
    starts,           \* creation handlers waiting for stagehand.init()
    actions,          \* action handlers waiting for their call into the page
    deletes,          \* DELETE handlers waiting for stagehand.close()
    cleanup,          \* the POST /sessions/cleanup handlers, in their order
    response,         \* the response the stagehand server sent last
    registryHist,     \* history of the registry (not program state)
    graceful,         \* the gracefulShutdown calls of the stagehand server
    caught,           \* an error thrown by the page on its way to the response
    logged            \* a piece of child output on its way to the log

\* The fields of the supervisor and the position of its start().
supervisorVars ==
    <<processes, handles, restartCounts, restartTimers, isShuttingDown,
      shutdownPromises, exitCode, logStreamOpen, exited, exitStatus, hist,
      startPc, lastHealth, triggers, firstTrigger>>

\* What the specification of the supervisor leaves alone: the components
\* that are specified on their own.
auxVars ==
    <<poll, sessions, minted, starts, actions, deletes, cleanup, response,
      registryHist, graceful, caught, logged>>

\* The stagehand server (session registry).
registryVars ==
    <<sessions, minted, starts, actions, deletes, cleanup, response,
      registryHist, graceful>>

vars == <<supervisorVars, auxVars>>

\* The supervisor object as one value, so that a handler that calls other
\* methods is the composition of their effects.
Cur ==
    [processes |-> processes, handles |-> handles,
     restartCounts |-> restartCounts, restartTimers |-> restartTimers,
     isShuttingDown |-> isShuttingDown, shutdownPromises |-> shutdownPromises,
     exitCode |-> exitCode, logStreamOpen |-> logStreamOpen,
     exited |-> exited, exitStatus |-> exitStatus, hist |-> hist]

Set(S) ==
    /\ processes' = S.processes
    /\ handles' = S.handles
    /\ restartCounts' = S.restartCounts
    /\ restartTimers' = S.restartTimers
    /\ isShuttingDown' = S.isShuttingDown
    /\ shutdownPromises' = S.shutdownPromises
    /\ exitCode' = S.exitCode
    /\ logStreamOpen' = S.logStreamOpen
    /\ exited' = S.exited
    /\ exitStatus' = S.exitStatus
    /\ hist' = S.hist

NoPromise == [h |-> 0, st |-> "none"]

ZeroCount == [s \in Services |-> 0]

\* History: how often each piece of code ran.
InitHist ==
    [shutdownRuns |-> 0,            \* shutdown() bodies past the guard
     exitCalls |-> 0,               \* process.exit calls
     tableAtShutdown |-> ZeroCount, \* this.processes when shutdown() ran
     childShutdown |-> FALSE]       \* gracefulShutdown has run in a stagehand
                                    \* process without a signal of the
                                    \* supervisor

\* ------------------------------------------------------- child processes
\* spawn(): the new ChildProcess.  A spawn that fails (e.g. ENOENT) yields a
\* handle that never runs (alive = FALSE) and emits 'error' on the next tick.
NewHandle(ok) ==
    [alive |-> ok,
     killed |-> FALSE,
     signals |-> <<>>]

\* ChildProcess.kill(sig): the signal is delivered, and .killed set, only
\* while the handle has not emitted 'exit' (or failed to spawn).
Kill(h, sig) ==
    IF h.alive
    THEN [h EXCEPT !.killed = TRUE, !.signals = Append(@, sig)]
    ELSE h

\* Mutation: shutdown() signals with the force-kill signal at once.
GracefulSignalIsKill == "SIGKILL"

GracefulSignal == "SIGTERM"

ForceSignal == "SIGKILL"

\* Mutation: the callback of the 10 second timer does not resolve its race,
\* so that only 'exit' events let Promise.all go on.
SettleNeedsExitEvents(S) ==
    IF /\ S.isShuttingDown
       /\ ~S.exited
       /\ \A s \in Services :
             S.shutdownPromises[s].st \notin {"pending", "timeout"}
    THEN [S EXCEPT !.logStreamOpen = FALSE,
                   !.exited = TRUE,
                   !.exitStatus = S.exitCode,
                   !.hist.exitCalls = @ + 1]
    ELSE S

\* Mutation: the supervisor always exits with status 0.
SettleExitZero(S) ==
    IF /\ S.isShuttingDown
       /\ ~S.exited
       /\ \A s \in Services : S.shutdownPromises[s].st # "pending"
    THEN [S EXCEPT !.logStreamOpen = FALSE,
                   !.exited = TRUE,
                   !.exitStatus = 0,
                   !.hist.exitCalls = @ + 1]
    ELSE S

\* -------------------------------------------------------------- shutdown
\* await Promise.all(shutdownPromises); logStream.end(); process.exit(exitCode)
\* The continuation runs as a microtask of the turn that settles the last
\* race.
Settle(S) ==
    IF /\ S.isShuttingDown
       /\ ~S.exited
       /\ \A s \in Services : S.shutdownPromises[s].st # "pending"
    THEN [S EXCEPT !.logStreamOpen = FALSE,
                   !.exited = TRUE,
                   !.exitStatus = S.exitCode,
                   !.hist.exitCalls = @ + 1]
    ELSE S

\* Mutation: the loop of shutdown() awaits each race before it goes on to
\* the next process, so only the first tracked process is dealt with while
\* that one has not settled.
ShutdownTargetsSequential(S) ==
    LET all == {s \in Services :
                  /\ S.processes[s] # 0
                  /\ ~S.handles[s][S.processes[s]].killed}
    IN IF all = {} THEN {} ELSE {CHOOSE s \in all : TRUE}

\* Mutation: shutdown() stops the two services of the earlier version of
\* the supervisor ("Shutdown both processes"), not stagehand.
ShutdownTargetsBothProcesses(S) ==
    {s \in {"backend", "frontend"} :
        /\ S.processes[s] # 0
        /\ ~S.handles[s][S.processes[s]].killed}

\* for (const [name, process] of Object.entries(this.processes))
\*     if (process && !process.killed) ...
ShutdownTargets(S) ==
    {s \in Services :
        /\ S.processes[s] # 0
        /\ ~S.handles[s][S.processes[s]].killed}

\* Mutation: shutdown() without its isShuttingDown guard.
ShutdownGuardMissing(S) == FALSE

\* Mutation: the guard of shutdown() tests a flag that is set only when the
\* shutdown sequence has ended.
ShutdownGuardWhenDone(S) == S.exited

\* The guard of shutdown().
ShutdownGuard(S) == S.isShuttingDown

\* shutdown(exitCode)
Shutdown(S, code) ==
    IF ShutdownGuard(S)
    THEN S
    ELSE LET targets == ShutdownTargets(S)
         IN Settle(
              [S EXCEPT
                 !.isShuttingDown = TRUE,
                 !.exitCode = code,
                 !.handles = [s \in Services |->
                     IF s \in targets
                     THEN [S.handles[s] EXCEPT ![S.processes[s]] =
                              Kill(@, GracefulSignal)]
                     ELSE S.handles[s]],
                 !.shutdownPromises = [s \in Services |->
                     IF s \in targets
                     THEN [h |-> S.processes[s], st |-> "pending"]
                     ELSE S.shutdownPromises[s]],
                 !.hist.shutdownRuns = @ + 1,
                 !.hist.tableAtShutdown = S.processes])

\* Mutation: the budget test is > instead of >=.
HandleProcessFailureOffByOne(S, name) ==
    IF S.restartCounts[name] > maxRestarts
    THEN Shutdown(S, 1)
    ELSE [S EXCEPT !.restartCounts[name] = @ + 1,
                   !.restartTimers[name] = @ + 1]

\* Mutation: budget exhaustion shuts down with the default exit code.
HandleProcessFailureExitZero(S, name) ==
    IF S.restartCounts[name] >= maxRestarts
    THEN Shutdown(S, 0)
    ELSE [S EXCEPT !.restartCounts[name] = @ + 1,
                   !.restartTimers[name] = @ + 1]

\* Mutation: the restart counter is not kept per service: a failure is
\* counted against every service.
HandleProcessFailureAllCounters(S, name) ==
    IF S.restartCounts[name] >= maxRestarts
    THEN Shutdown(S, 1)
    ELSE [S EXCEPT !.restartCounts = [s \in Services |-> @[s] + 1],
                   !.restartTimers[name] = @ + 1]

\* Mutation: a failure arms the restart timer twice.
HandleProcessFailureTwoTimers(S, name) ==
    IF S.restartCounts[name] >= maxRestarts
    THEN Shutdown(S, 1)
    ELSE [S EXCEPT !.restartCounts[name] = @ + 1,
                   !.restartTimers[name] = @ + 2]

\* --------------------------------------------------------------- restart
\* handleProcessFailure(processName)
HandleProcessFailure(S, name) ==
    IF S.restartCounts[name] >= maxRestarts
    THEN Shutdown(S, 1)
    ELSE [S EXCEPT !.restartCounts[name] = @ + 1,
                   !.restartTimers[name] = @ + 1]

\* The 'error' listener spawnProcess registers: it does not look at
\* isShuttingDown.
ErrorListener(S, name) == HandleProcessFailure(S, name)

\* The 'exit' listener spawnProcess registers.
ExitListener(S, name) ==
    IF ~S.isShuttingDown
    THEN HandleProcessFailure(S, name)
    ELSE S

\* startProcess(name), with spawnProcess(name, config) inlined; ok says
\* whether the operating system could start the command.  A failed spawn
\* emits 'error' on the next tick, whose handler calls handleProcessFailure.
StartProcess(S, name, ok) ==
    LET cur == S.processes[name]
        S1 == IF cur # 0
              THEN [S EXCEPT !.handles[name][cur] = Kill(@, GracefulSignal)]
              ELSE S
        S2 == [S1 EXCEPT !.handles[name] = Append(@, NewHandle(ok)),
                         !.processes[name] = Len(S1.handles[name]) + 1]
    IN IF ok THEN S2 ELSE ErrorListener(S2, name)

\* The 'exit' listeners of handle i of service name, in registration order:
\* the one of spawnProcess, then the one shutdown() added (if it had been
\* added before this event was emitted).
OnExit(S, name, i) ==
    LET raced == /\ S.shutdownPromises[name].st = "pending"
                 /\ S.shutdownPromises[name].h = i
        S1 == [S EXCEPT !.handles[name][i].alive = FALSE]
        S2 == ExitListener(S1, name)
        S3 == IF raced
              THEN [S2 EXCEPT !.shutdownPromises[name].st = "exit"]
              ELSE S2
    IN Settle(S3)

\* Mutation: the restart callback does not look at isShuttingDown.
OnRestartTimerUnguarded(S, name, ok) ==
    StartProcess([S EXCEPT !.restartTimers[name] = @ - 1], name, ok)

\* The callback of setTimeout(..., this.restartDelay) in handleProcessFailure.
OnRestartTimer(S, name, ok) ==
    LET S1 == [S EXCEPT !.restartTimers[name] = @ - 1]
    IN IF ~S1.isShuttingDown
       THEN StartProcess(S1, name, ok)
       ELSE S1

\* The callback of the 10 second setTimeout in shutdown().
OnShutdownTimeout(S, name) ==
    LET i == S.shutdownPromises[name].h
    IN Settle([S EXCEPT !.handles[name][i] = Kill(@, ForceSignal),
                        !.shutdownPromises[name].st = "timeout"])

\* ----------------------------------------------------------- health check
\* The for loop of waitForHealthcheck.  firstOk is the number of the first
\* poll for which checkHealth() resolves true (every earlier one resolves
\* false); the result is what the function returns and how many polls it
\* made.
\* Mutation: the loop stops one attempt early.
LoopTestStrict(attempt) == attempt < maxAttempts

\* The test of the for loop: attempt <= maxAttempts.
LoopTest(attempt) == attempt <= maxAttempts

\* The test before the 2 second sleep: attempt < maxAttempts.
SleepTest(attempt) == attempt < maxAttempts

RECURSIVE HealthLoop(_, _)
HealthLoop(attempt, firstOk) ==
    IF LoopTest(attempt)
    THEN IF attempt = firstOk
         THEN [healthy |-> TRUE, polls |-> attempt]
         ELSE HealthLoop(attempt + 1, firstOk)
    ELSE [healthy |-> FALSE, polls |-> maxAttempts]

WaitForHealthcheck(firstOk) == HealthLoop(1, firstOk)

\* The environment: which poll is the first to succeed (maxAttempts + 1:
\* none of those the loop makes).  The first, the third, the last one
\* allowed and none.
FirstOkInputs == {1, 3, maxAttempts, maxAttempts + 1}

\* No waitForHealthcheck call has returned yet.
NoHealth == [name |-> "none", healthy |-> FALSE]

\* ------------------------------------------------------------------ init
\* The supervisor after its constructor.
SupervisorInit ==
    /\ processes = ZeroCount
    /\ handles = [s \in Services |-> <<>>]
    /\ restartCounts = ZeroCount
    /\ restartTimers = ZeroCount
    /\ isShuttingDown = FALSE
    /\ shutdownPromises = [s \in Services |-> NoPromise]
    /\ exitCode = 0
    /\ logStreamOpen = TRUE
    /\ exited = FALSE
    /\ exitStatus = -1
    /\ hist = InitHist
    /\ startPc = "init"
    /\ lastHealth = NoHealth
    /\ triggers = 0
    /\ firstTrigger = "none"

\* No waitForHealthcheck call is followed poll by poll.
\* No child output is being handled.
NoLogged ==
    [phase |-> "idle", service |-> "none", message |-> <<>>, out |-> <<>>]

\* No error of the page is being handled.
NoCaught ==
    [phase |-> "idle", method |-> "none", name |-> "none",
     thrown |-> <<>>, hasStack |-> FALSE, message |-> <<>>, stack |-> <<>>,
     error |-> <<>>, details |-> <<>>]

NoPoll ==
    [name |-> "none", firstOk |-> 0, attempt |-> 0, phase |-> "idle",
     polls |-> 0, sleeps |-> 0, cleanups |-> 0, healthy |-> FALSE]

\* `session_${Date.now()}_${random}`: the n-th local identifier minted.
LocalId(n) == <<"session", n>>

\* The Browserbase session identifier of the n-th session created: the
\* provider issues distinct identifiers.
BbId(n) == <<"bb", n>>

\* The local identifiers the registry mints in one run.
LocalIds == {LocalId(n) : n \in 1..MaxSessions}

\* No cleanup request has been made.
NoCleanup == <<>>

\* No call into the provider library has settled for a handler.
NoSettled == [n |-> 0, call |-> "none", result |-> "none", calls |-> <<>>]

NoSummary == [total |-> 0, successful |-> 0, failed |-> 0]

NoResponse == [req |-> "none", addr |-> <<>>, status |-> 0,
               summary |-> NoSummary]

\* The stagehand server after start-up: const sessions = new Map().
RegistryInit ==
    /\ sessions = <<>>
    /\ minted = 0
    /\ starts = {}
    /\ actions = {}
    /\ deletes = {}
    /\ cleanup = NoCleanup
    /\ response = NoResponse
    /\ registryHist = [requests |-> 0, closed |-> {},
                       closeCalls |-> [l \in LocalIds |-> 0],
                       last |-> [req |-> "none", addr |-> <<>>,
                                 method |-> "none", headers |-> <<>>,
                                 remote |-> <<>>],
                       settled |-> NoSettled]
    /\ graceful = [st |-> "none", races |-> <<>>, signals |-> 0]

Init ==
    /\ SupervisorInit
    /\ poll = NoPoll
    /\ RegistryInit
    /\ caught = NoCaught
    /\ logged = NoLogged

\* Records which caller started the shutdown sequence: "signal", "fault"
\* (uncaught exception or unhandled rejection), "startup" (the catch block of
\* start) or "budget" (handleProcessFailure).
Cause(k) ==
    firstTrigger' = IF ~isShuttingDown /\ isShuttingDown' THEN k
                    ELSE firstTrigger

\* ----------------------------------------------------------------- start
\* Mutation: the catch block of start() calls shutdown() without a status.
StartPrereqFailExitZero ==
    /\ ~exited
    /\ UNCHANGED auxVars
    /\ startPc = "init"
    /\ Set(Shutdown(Cur, 0))
    /\ startPc' = "failed"
    /\ Cause("startup")
    /\ UNCHANGED <<lastHealth, triggers>>

\* start(): checkPrerequisites() throws; the catch block calls shutdown(1).
StartPrereqFail ==
    /\ ~exited
    /\ UNCHANGED auxVars
    /\ startPc = "init"
    /\ Set(Shutdown(Cur, 1))
    /\ startPc' = "failed"
    /\ Cause("startup")
    /\ UNCHANGED <<lastHealth, triggers>>

\* Mutation: start() does not await waitForHealthcheck('stagehand').
StartStagehandNoAwait ==
    /\ ~exited
    /\ UNCHANGED auxVars
    /\ startPc = "init"
    /\ \E ok \in BOOLEAN : Set(StartProcess(Cur, "stagehand", ok))
    /\ startPc' = "cleanup"
    /\ Cause("budget")
    /\ UNCHANGED <<lastHealth, triggers>>

\* start(): prerequisites pass; startProcess('stagehand'); then
\* waitForHealthcheck('stagehand') starts polling.
StartStagehand ==
    /\ ~exited
    /\ UNCHANGED auxVars
    /\ startPc = "init"
    /\ \E ok \in BOOLEAN : Set(StartProcess(Cur, "stagehand", ok))
    /\ startPc' = "hc_stagehand"
    /\ Cause("budget")
    /\ UNCHANGED <<lastHealth, triggers>>

\* The service start() is waiting for in waitForHealthcheck.
HcService ==
    CASE startPc = "hc_stagehand" -> "stagehand"
      [] startPc = "hc_backend" -> "backend"
      [] startPc = "hc_frontend" -> "frontend"
      [] OTHER -> "none"

\* Mutation: start() gives up when a health check times out.
AfterHealthcheckFatal(name, healthy) ==
    IF ~healthy THEN "failed"
    ELSE CASE name = "stagehand" -> "cleanup"
           [] name = "backend" -> "hc_frontend"
           [] OTHER -> "started"

\* Where start() resumes when waitForHealthcheck(name) returns: its result
\* is not looked at.
AfterHealthcheck(name, healthy) ==
    CASE name = "stagehand" -> "cleanup"
      [] name = "backend" -> "hc_frontend"
      [] OTHER -> "started"

\* Mutation: a health check that times out is handled as a failure of the
\* process.
HealthcheckReturnsRestarts ==
    /\ ~exited
    /\ UNCHANGED auxVars
    /\ HcService # "none"
    /\ \E firstOk \in FirstOkInputs :
         LET r == WaitForHealthcheck(firstOk)
         IN /\ lastHealth' = [name |-> HcService, healthy |-> r.healthy]
            /\ startPc' = AfterHealthcheck(HcService, r.healthy)
            /\ Set(IF r.healthy THEN Cur
                   ELSE HandleProcessFailure(Cur, HcService))
    /\ UNCHANGED <<triggers, firstTrigger>>

\* waitForHealthcheck(name, port) returns to start(): true at the first
\* successful poll, false after maxAttempts failed polls.
HealthcheckReturns ==
    /\ ~exited
    /\ UNCHANGED auxVars
    /\ HcService # "none"
    /\ \E firstOk \in FirstOkInputs :
         LET r == WaitForHealthcheck(firstOk)
         IN /\ lastHealth' = [name |-> HcService, healthy |-> r.healthy]
            /\ startPc' = AfterHealthcheck(HcService, r.healthy)
    /\ UNCHANGED <<processes, handles, restartCounts, restartTimers,
                   isShuttingDown, shutdownPromises, exitCode, logStreamOpen,
                   exited, exitStatus, hist, triggers, firstTrigger>>

\* start(): the session cleanup that follows the stagehand health check
\* (the 1 s pause and request inside waitForHealthcheck after a success, then
\* await cleanupStagehandSessions(), which catches its own errors) is over;
\* startProcess('backend'); the 3 s pause begins.
StartBackend ==
    /\ ~exited
    /\ UNCHANGED auxVars
    /\ startPc = "cleanup"
    /\ \E ok \in BOOLEAN : Set(StartProcess(Cur, "backend", ok))
    /\ startPc' = "pause"
    /\ Cause("budget")
    /\ UNCHANGED <<lastHealth, triggers>>

\* start(): the 3 s pause is over; startProcess('frontend'); then
\* waitForHealthcheck('backend') starts polling.
StartFrontend ==
    /\ ~exited
    /\ UNCHANGED auxVars
    /\ startPc = "pause"
    /\ \E ok \in BOOLEAN : Set(StartProcess(Cur, "frontend", ok))
    /\ startPc' = "hc_backend"
    /\ Cause("budget")
    /\ UNCHANGED <<lastHealth, triggers>>

\* ---------------------------------------------------------------- events
\* A child process ends: its handle emits 'exit'.
ProcessExit ==
    /\ ~exited
    /\ UNCHANGED auxVars
    /\ \E name \in Services : \E i \in 1..Len(handles[name]) :
         /\ handles[name][i].alive
         /\ Set(OnExit(Cur, name, i))
    /\ Cause("budget")
    /\ UNCHANGED <<startPc, lastHealth, triggers>>

\* A restart timer fires.
RestartTimer ==
    /\ ~exited
    /\ UNCHANGED auxVars
    /\ \E name \in Services :
         /\ restartTimers[name] > 0
         /\ \E ok \in BOOLEAN : Set(OnRestartTimer(Cur, name, ok))
    /\ Cause("budget")
    /\ UNCHANGED <<startPc, lastHealth, triggers>>

\* A shutdown timeout fires (it was not cleared by an 'exit').
ShutdownTimeout ==
    /\ ~exited
    /\ UNCHANGED auxVars
    /\ \E name \in Services :
         /\ shutdownPromises[name].st = "pending"
         /\ Set(OnShutdownTimeout(Cur, name))
    /\ UNCHANGED <<startPc, lastHealth, triggers, firstTrigger>>

\* The argument the handlers of setupSignalHandlers pass to shutdown():
\* none (the default, 0) for a signal, 1 for a fault.
SignalExitCode == 0

FaultExitCode == 1

\* setupSignalHandlers: SIGTERM, SIGINT or SIGUSR2 arrives.  (The handlers
\* are installed by the constructor; start() reaches its first await in
\* the same turn, so no event precedes it.)
Signal ==
    /\ ~exited
    /\ UNCHANGED auxVars
    /\ startPc # "init"
    /\ triggers < MaxTriggers
    /\ Set(Shutdown(Cur, SignalExitCode))
    /\ Cause("signal")
    /\ triggers' = triggers + 1
    /\ UNCHANGED <<startPc, lastHealth>>

\* setupSignalHandlers: 'uncaughtException' or 'unhandledRejection'.
UncaughtFault ==
    /\ ~exited
    /\ UNCHANGED auxVars
    /\ startPc # "init"
    /\ triggers < MaxTriggers
    /\ Set(Shutdown(Cur, FaultExitCode))
    /\ Cause("fault")
    /\ triggers' = triggers + 1
    /\ UNCHANGED <<startPc, lastHealth>>

\* The stagehand process runs its gracefulShutdown for a cause that is not
\* the supervisor: its environment delivers SIGINT or SIGTERM to it (a
\* terminal signals the whole foreground process group, a service manager
\* the control group), or it catches a fault of its own.  The supervisor
\* sees nothing of it until the process exits.
ChildSignalled ==
    /\ ~exited
    /\ UNCHANGED auxVars
    /\ ~hist.childShutdown
    /\ \E i \in 1..Len(handles["stagehand"]) : handles["stagehand"][i].alive
    /\ hist' = [hist EXCEPT !.childShutdown = TRUE]
    /\ UNCHANGED <<processes, handles, restartCounts, restartTimers,
                   isShuttingDown, shutdownPromises, exitCode, logStreamOpen,
                   exited, exitStatus, startPc, lastHealth, triggers,
                   firstTrigger>>

Next ==
    \/ StartPrereqFail
    \/ StartStagehand
    \/ HealthcheckReturns
    \/ StartBackend
    \/ StartFrontend
    \/ ProcessExit
    \/ RestartTimer
    \/ ShutdownTimeout
    \/ Signal
    \/ UncaughtFault

Spec == Init /\ [][Next]_vars

\* The runs in which at most MaxSpawns processes are spawned.  The callback
\* of a restart timer spawns nothing once isShuttingDown is set.
SpawnsLeft ==
    Len(handles["stagehand"]) + Len(handles["backend"])
        + Len(handles["frontend"]) < MaxSpawns

NextFair ==
    \/ StartPrereqFail
    \/ SpawnsLeft /\ StartStagehand
    \/ HealthcheckReturns
    \/ SpawnsLeft /\ StartBackend
    \/ SpawnsLeft /\ StartFrontend
    \/ ProcessExit
    \/ (SpawnsLeft \/ isShuttingDown) /\ RestartTimer
    \/ ShutdownTimeout
    \/ Signal
    \/ UncaughtFault

\* The 10 second timers of shutdown() fire unless an 'exit' clears them.
FairSpec == Init /\ [][NextFair]_vars /\ WF_vars(ShutdownTimeout)

\* The supervisor together with what the environment does to the stagehand
\* process directly.
NextOutside ==
    \/ StartPrereqFail
    \/ StartStagehand
    \/ HealthcheckReturns
    \/ StartBackend
    \/ StartFrontend
    \/ ProcessExit
    \/ RestartTimer
    \/ ShutdownTimeout
    \/ Signal
    \/ UncaughtFault
    \/ ChildSignalled

SpecOutside == Init /\ [][NextOutside]_vars

TypeOK ==
    /\ \A s \in Services : processes[s] \in 0..Len(handles[s])
    /\ \A s \in Services : restartCounts[s] \in Nat
    /\ isShuttingDown \in BOOLEAN
    /\ exited \in BOOLEAN

\* ============================================ waitForHealthcheck, by poll
\* One call of waitForHealthcheck(name, port) followed through its loop.
\* The inputs are the service and firstOk, the number of the first poll for
\* which checkHealth() resolves true (maxAttempts + 1: none of the polls the
\* loop makes).
StartPoll(name, firstOk) ==
    [name |-> name, firstOk |-> firstOk, attempt |-> 1, phase |-> "poll",
     polls |-> 0, sleeps |-> 0, cleanups |-> 0, healthy |-> FALSE]

InitHealth ==
    /\ SupervisorInit
    /\ RegistryInit
    /\ caught = NoCaught
    /\ logged = NoLogged
    /\ poll \in {StartPoll(name, f) :
                   name \in Services, f \in 1..(maxAttempts + 1)}

\* `if (await checkHealth())` is true.  For backend and frontend
\* cleanupStagehandSessions() does nothing and the function returns true in
\* the same turn; for stagehand it awaits a 1 second timer first.
CheckHealthOk ==
    /\ poll.phase = "poll"
    /\ poll.attempt = poll.firstOk
    /\ poll' = IF poll.name = "stagehand"
               THEN [poll EXCEPT !.polls = @ + 1, !.phase = "wait1s"]
               ELSE [poll EXCEPT !.polls = @ + 1, !.phase = "returned",
                                 !.healthy = TRUE]
    /\ UNCHANGED <<supervisorVars, registryVars, caught, logged>>

\* The 1 second timer of cleanupStagehandSessions() fires: the cleanup
\* request is sent (its outcome is only logged, later) and
\* waitForHealthcheck returns true.
CleanupWaitOver ==
    /\ poll.phase = "wait1s"
    /\ poll' = [poll EXCEPT !.cleanups = @ + 1, !.phase = "returned",
                            !.healthy = TRUE]
    /\ UNCHANGED <<supervisorVars, registryVars, caught, logged>>

\* checkHealth() resolves false: sleep 2 seconds if attempt < maxAttempts,
\* else go round the loop, whose test fails: the function returns false.
CheckHealthFail ==
    /\ poll.phase = "poll"
    /\ poll.attempt # poll.firstOk
    /\ poll' = IF SleepTest(poll.attempt)
               THEN [poll EXCEPT !.polls = @ + 1, !.phase = "sleep",
                                 !.sleeps = @ + 1]
               ELSE IF LoopTest(poll.attempt + 1)
               THEN [poll EXCEPT !.polls = @ + 1, !.attempt = @ + 1]
               ELSE [poll EXCEPT !.polls = @ + 1, !.attempt = @ + 1,
                                 !.phase = "returned"]
    /\ UNCHANGED <<supervisorVars, registryVars, caught, logged>>

\* The 2 second timer fires: attempt++ and the test of the loop.
Wake ==
    /\ poll.phase = "sleep"
    /\ poll' = IF LoopTest(poll.attempt + 1)
               THEN [poll EXCEPT !.attempt = @ + 1, !.phase = "poll"]
               ELSE [poll EXCEPT !.attempt = @ + 1, !.phase = "returned"]
    /\ UNCHANGED <<supervisorVars, registryVars, caught, logged>>

NextHealth ==
    \/ CheckHealthOk
    \/ CleanupWaitOver
    \/ CheckHealthFail
    \/ Wake

SpecHealth == InitHealth /\ [][NextHealth]_vars

\* ===================================================== the session registry
\* The stagehand server: an express application around the Map `sessions`.
\* One step is one turn of its event loop: a handler runs up to its first
\* await, or resumes when the awaited call settles and runs to its response.
\* Any number of handlers may be waiting at the same time; a handler is
\* named by the number of its request.

\* The identifiers a request may be addressed with.
Addrs ==
    {LocalId(n) : n \in 1..MaxSessions} \cup {BbId(n) : n \in 1..MaxSessions}

\* No record was found.
NoSession == <<>>

\* sessions.get(sessionId): the positions of the records with that key.
Get(map, addr) == {i \in 1..Len(map) : map[i].localId = addr}

\* The records the scan `for (const [localId, instance] of sessions)` finds
\* with bbSessionId === sessionId.
Scan(map, addr) == {i \in 1..Len(map) : map[i].bbSessionId = addr}

First(S) == CHOOSE i \in S : \A j \in S : i <= j

\* Mutation: only the key of the Map is looked up.
ResolveLocalOnly(map, addr) ==
    IF Get(map, addr) # {} THEN addr ELSE NoSession

\* The lookup of the action and close handlers: the local identifier of the
\* record found by sessions.get, else of the first record whose Browserbase
\* identifier is the address, else none.
Resolve(map, addr) ==
    IF Get(map, addr) # {} THEN addr
    ELSE IF Scan(map, addr) # {} THEN map[First(Scan(map, addr))].localId
    ELSE NoSession

\* sessions.delete(localSessionId)
MapDelete(map, l) == SelectSeq(map, LAMBDA r : r.localId # l)

\* Mutation: the instance is stored under its Browserbase identifier as
\* well as under its local identifier.
MapSetBothKeys(map, l, bb) ==
    map \o <<[localId |-> l, bbSessionId |-> bb],
             [localId |-> bb, bbSessionId |-> bb]>>

\* sessions.set(localSessionId, stagehand), for a new key.
MapSet(map, l, bb) == Append(map, [localId |-> l, bbSessionId |-> bb])

Respond(req, addr, status) ==
    [req |-> req, addr |-> addr, status |-> status, summary |-> NoSummary,
     sessionId |-> <<>>, error |-> "none"]

\* The stagehand process has not exited: it serves requests and resumes
\* handlers, also while a gracefulShutdown waits for its closes.
Serving == graceful.st # "exited" /\ UNCHANGED graceful

\* process.exit(0): the handlers that wait for a call to settle are gone
\* with the process.
HandlersGone ==
    /\ starts' = {}
    /\ actions' = {}
    /\ deletes' = {}
    /\ cleanup' = NoCleanup

\* The number of the request that arrives.
Arriving == registryHist.requests + 1

\* The server takes one more request with the given method parameter and
\* headers, whose handler calls close() on the sessions in closing, and
\* makes the other calls into the provider library listed in remote, all in
\* the turn in which the request arrives.
AcceptCalling(req, addr, closing, method, headers, remote) ==
    /\ registryHist.requests < MaxRequests
    /\ registryHist' =
          [registryHist EXCEPT
             !.requests = @ + 1,
             !.last = [req |-> req, addr |-> addr, method |-> method,
                       headers |-> headers, remote |-> remote],
             !.closeCalls = [l \in LocalIds |->
                               IF l \in closing THEN @[l] + 1 ELSE @[l]]]

\* A request whose handler calls nothing but close().
Accept(req, addr, closing) ==
    AcceptCalling(req, addr, closing, "none", <<>>, <<>>)

\* A call into the provider library that a handler awaited has settled with
\* the given result; calls lists what the handler then calls on the
\* instance before it answers.
Settled(n, call, result, calls) ==
    registryHist' =
       [registryHist EXCEPT
          !.settled = [n |-> n, call |-> call, result |-> result,
                       calls |-> calls]]

\* POST /sessions/start.  The map is written only when stagehand.init() has
\* returned and the Browserbase identifier is known.
CreateOutcomes ==
    {"missing_credentials", "missing_model_key", "init_throws",
     "no_provider_id", "created"}

\* Which of the headers x-bb-api-key, x-bb-project-id and x-model-api-key
\* a request carries.
Headers == [apiKey : BOOLEAN, projectId : BOOLEAN, modelKey : BOOLEAN]

\* What stagehand.init() does: it throws, or returns without a session
\* identifier on the instance, or returns with one.
ProviderOutcomes == {"init_throws", "no_provider_id", "ok"}

\* stagehand.init() has been called and has not settled.
InitPending == "pending"

\* Mutation: the model API key is not required.
CreateOutcomeNoModelKey(h, provider) ==
    IF ~h.apiKey \/ ~h.projectId THEN "missing_credentials"
    ELSE IF provider = "ok" THEN "created"
    ELSE provider

\* The path the handler takes, from the header checks in their order and
\* the state of stagehand.init(): pending while it has not settled.
CreateOutcome(h, provider) ==
    IF ~h.apiKey \/ ~h.projectId THEN "missing_credentials"
    ELSE IF ~h.modelKey THEN "missing_model_key"
    ELSE IF provider = "ok" THEN "created"
    ELSE provider

CreateStatus(outcome) ==
    CASE outcome = "created" -> 200
      [] outcome \in {"missing_credentials", "missing_model_key"} -> 400
      [] OTHER -> 500

\* new Stagehand(...) and stagehand.init() are reached only past both
\* header checks.
CreateRemote(h) ==
    IF CreateOutcome(h, InitPending) = InitPending
    THEN <<"init">>
    ELSE <<>>

\* Mutation: the instance is stored as soon as stagehand.init() has
\* returned, before its identifier is looked at.
CreateStoresInitialised(outcome) ==
    outcome \in {"created", "no_provider_id"}

\* sessions.set is reached only past the check of the identifier.
CreateStores(outcome) == outcome = "created"

\* Mutation: the response of a creation carries the Browserbase identifier
\* only.
CreateResponseRemoteOnly(outcome, l, bb) ==
    IF outcome = "created"
    THEN [Respond("start", <<>>, 200) EXCEPT !.sessionId = bb]
    ELSE [Respond("start", <<>>, CreateStatus(outcome))
            EXCEPT !.error = outcome]

\* The response of POST /sessions/start: data.sessionId is the Browserbase
\* identifier and data.localSessionId the key of the map; a failure
\* carries its error and no identifier.
CreateResponse(outcome, l, bb) ==
    IF outcome = "created"
    THEN [Respond("start", l, 200) EXCEPT !.sessionId = bb]
    ELSE [Respond("start", <<>>, CreateStatus(outcome))
            EXCEPT !.error = outcome]

\* Mutation: the identifier is not read from the instance before it is
\* stored.
ProviderIdUnknown(provider, n) == <<>>

\* stagehand.api?.sessionId || stagehand.browserbaseSessionID after the
\* n-th successful stagehand.init(): undefined when the instance carries
\* neither.
ProviderId(provider, n) == IF provider = "ok" THEN BbId(n) ELSE <<>>

\* POST /sessions/start up to `await stagehand.init()`: a request that
\* lacks a header is answered 400 at once; else the instance is made,
\* init() is called and the handler waits.
StartSession ==
    /\ \E h \in Headers :
          LET outcome == CreateOutcome(h, InitPending)
          IN /\ AcceptCalling("start", <<>>, {}, "none", h, CreateRemote(h))
             /\ IF outcome = InitPending
                THEN /\ minted + Cardinality(starts) < MaxSessions
                     /\ starts' = starts \cup {[n |-> Arriving, headers |-> h]}
                     /\ UNCHANGED response
                ELSE /\ response' = CreateResponse(outcome, <<>>, <<>>)
                     /\ UNCHANGED starts
    /\ UNCHANGED <<sessions, minted, actions, deletes, cleanup>>
    /\ Serving
    /\ UNCHANGED <<supervisorVars, poll, caught, logged>>

\* stagehand.init() settles for a creation handler.  It threw: the catch
\* block answers 500.  It returned: the identifier is read from the
\* instance; without one the handler throws and answers 500, with one it
\* mints the local identifier, stores the instance and answers.
InitSettles ==
    /\ \E s \in starts, provider \in ProviderOutcomes :
          LET outcome == CreateOutcome(s.headers, provider)
              l == LocalId(minted + 1)
              bb == ProviderId(provider, minted + 1)
          IN /\ starts' = starts \ {s}
             /\ response' = CreateResponse(outcome, l, bb)
             /\ IF CreateStores(outcome)
                THEN /\ sessions' = MapSet(sessions, l, bb)
                     /\ minted' = minted + 1
                ELSE UNCHANGED <<sessions, minted>>
             /\ Settled(s.n, "init", provider, <<>>)
    /\ UNCHANGED <<actions, deletes, cleanup>>
    /\ Serving
    /\ UNCHANGED <<supervisorVars, poll, caught, logged>>

\* The action names of the switch, and one that is none of them.
Methods ==
    {"goto", "navigate", "act", "observe", "extract", "screenshot", "bogus"}

\* Mutation: an unknown method is passed on to the page.
PageCallAny(method) ==
    CASE method \in {"goto", "navigate"} -> <<"page.goto">>
      [] method = "act" -> <<"page.act">>
      [] method = "observe" -> <<"page.observe">>
      [] method = "extract" -> <<"page.extract">>
      [] method = "screenshot" -> <<"page.screenshot">>
      [] OTHER -> <<"page.evaluate">>

\* The calls into stagehand.page that the switch makes for a method.
PageCall(method) ==
    CASE method \in {"goto", "navigate"} -> <<"page.goto">>
      [] method = "act" -> <<"page.act">>
      [] method = "observe" -> <<"page.observe">>
      [] method = "extract" -> <<"page.extract">>
      [] method = "screenshot" -> <<"page.screenshot">>
      [] OTHER -> <<>>

\* POST /sessions/:sessionId/:method: the status of the answer sent in the
\* turn of the request.  404 when no record is found, 400 for a method that
\* is no case of the switch; else 0: no answer yet, the handler awaits the
\* call into the page.
ActionStatus(map, addr, method) ==
    IF Resolve(map, addr) = NoSession THEN 404
    ELSE IF PageCall(method) = <<>> THEN 400
    ELSE 0

\* The status of the answer once the call into the page has settled: 500
\* from the catch block when it threw, else 200.
SettledStatus(ok) == IF ok THEN 200 ELSE 500

\* The error of the response: the two fixed texts, or for a 500 the message
\* made from what the page threw.
ActionError(status, method) ==
    CASE status = 404 -> "Session not found"
      [] status = 400 -> "Unknown method"
      [] status = 500 -> "remote"
      [] OTHER -> "none"

\* Mutation: the page is called before the session is looked up.
ActionRemoteUnresolved(map, addr, method) == PageCall(method)

\* The calls a request makes into the page of the instance it resolved:
\* none when no record is found.
ActionRemote(map, addr, method) ==
    IF Resolve(map, addr) = NoSession THEN <<>> ELSE PageCall(method)

\* POST /sessions/:sessionId/:method up to the await of the call into the
\* page: a request that finds no record, or names no action of the switch,
\* is answered at once; else the page is called and the handler waits with
\* the instance it found.
ActionRequest ==
    /\ \E addr \in Addrs, method \in Methods :
          LET status == ActionStatus(sessions, addr, method)
          IN /\ AcceptCalling("action", addr, {}, method, <<>>,
                              ActionRemote(sessions, addr, method))
             /\ IF status = 0
                THEN /\ actions' =
                           actions \cup
                             {[n |-> Arriving, addr |-> addr,
                               method |-> method,
                               localId |-> Resolve(sessions, addr)]}
                     /\ UNCHANGED response
                ELSE /\ response' =
                           [Respond("action", addr, status)
                              EXCEPT !.error = ActionError(status, method)]
                     /\ UNCHANGED actions
    /\ UNCHANGED <<sessions, minted, starts, deletes, cleanup>>
    /\ Serving
    /\ UNCHANGED <<supervisorVars, poll, caught, logged>>

\* The answer of an action handler whose call into the page has settled:
\* the handler holds the instance, the map is not looked at again.
ActionAnswer(a, ok) ==
    [Respond("action", a.addr, SettledStatus(ok))
       EXCEPT !.error = ActionError(SettledStatus(ok), a.method)]

\* Mutation: the handler drops the record of a session whose page threw.
PageSettlesDropsFailed ==
    /\ \E a \in actions, ok \in BOOLEAN :
          /\ actions' = actions \ {a}
          /\ response' = ActionAnswer(a, ok)
          /\ sessions' = IF ok THEN sessions
                         ELSE MapDelete(sessions, a.localId)
          /\ Settled(a.n, PageCall(a.method)[1],
                     IF ok THEN "ok" ELSE "threw", <<>>)
    /\ UNCHANGED <<minted, starts, deletes, cleanup>>
    /\ Serving
    /\ UNCHANGED <<supervisorVars, poll, caught, logged>>

\* The call into the page settles for an action handler: 200 with the
\* result when it returned, 500 from the catch block when it threw.
PageSettles ==
    /\ \E a \in actions, ok \in BOOLEAN :
          /\ actions' = actions \ {a}
          /\ response' = ActionAnswer(a, ok)
          /\ Settled(a.n, PageCall(a.method)[1],
                     IF ok THEN "ok" ELSE "threw", <<>>)
    /\ UNCHANGED <<sessions, minted, starts, deletes, cleanup>>
    /\ Serving
    /\ UNCHANGED <<supervisorVars, poll, caught, logged>>

\* Mutation: a close request that finds no record is answered 404, as an
\* action request is.
DeleteRequestNotFound ==
    /\ \E addr \in Addrs :
          LET l == Resolve(sessions, addr)
          IN IF l = NoSession
             THEN /\ Accept("delete", addr, {})
                  /\ response' = Respond("delete", addr, 404)
                  /\ UNCHANGED deletes
             ELSE /\ Accept("delete", addr, {l})
                  /\ deletes' = deletes \cup {[n |-> Arriving, addr |-> addr,
                                               localId |-> l]}
                  /\ UNCHANGED response
    /\ UNCHANGED <<sessions, minted, starts, actions, cleanup>>
    /\ Serving
    /\ UNCHANGED <<supervisorVars, poll, caught, logged>>

\* DELETE /sessions/:sessionId up to `await stagehand.close()`: when no
\* record is found the handler answers success at once; else close() is
\* called on the instance found, whatever other handlers wait for a close
\* of the same instance.
DeleteRequest ==
    /\ \E addr \in Addrs :
          LET l == Resolve(sessions, addr)
          IN IF l = NoSession
             THEN /\ Accept("delete", addr, {})
                  /\ response' = Respond("delete", addr, 200)
                  /\ UNCHANGED deletes
             ELSE /\ Accept("delete", addr, {l})
                  /\ deletes' = deletes \cup {[n |-> Arriving, addr |-> addr,
                                               localId |-> l]}
                  /\ UNCHANGED response
    /\ UNCHANGED <<sessions, minted, starts, actions, cleanup>>
    /\ Serving
    /\ UNCHANGED <<supervisorVars, poll, caught, logged>>

\* The messages of the errors stagehand.close() throws.
CloseMessages == {"", "boom", "Session already closed"}

\* The answer of a DELETE handler whose close() has settled: the success
\* response when it returned, and from the catch block
\* res.status(500).json({ success: false, error: error.message }) when it
\* threw.
DeleteAnswer(d, ok, message) ==
    IF ok
    THEN Respond("delete", d.addr, 200)
    ELSE [Respond("delete", d.addr, 500) EXCEPT !.error = message]

\* stagehand.close() settles for a DELETE handler.  It returned:
\* sessions.delete(localSessionId) and the success response.  It threw: the
\* catch block answers 500 with the message of the error, and
\* sessions.delete is not reached.
DeleteSettles ==
    /\ \E d \in deletes, ok \in BOOLEAN, message \in CloseMessages :
          /\ deletes' = deletes \ {d}
          /\ sessions' = IF ok THEN MapDelete(sessions, d.localId)
                         ELSE sessions
          /\ response' = DeleteAnswer(d, ok, message)
          /\ registryHist' =
                [registryHist EXCEPT !.closed = @ \cup {d.localId}]
    /\ UNCHANGED <<minted, starts, actions, cleanup>>
    /\ Serving
    /\ UNCHANGED <<supervisorVars, poll, caught, logged>>

\* Mutation: the total of the summary is the number of records closed.
CleanupSummaryTotalClosed(ids, results) ==
    [total |-> Cardinality({r \in results : r.success}),
     successful |-> Cardinality({r \in results : r.success}),
     failed |-> Cardinality({r \in results : ~r.success})]

\* summary: { total: sessionIds.length, successful, failed }, with
\* successful = results.filter(r => r.success).length and
\* failed = results.filter(r => !r.success).length.
CleanupSummary(ids, results) ==
    [total |-> Len(ids),
     successful |-> Cardinality({r \in results : r.success}),
     failed |-> Cardinality({r \in results : ~r.success})]

\* The response of POST /sessions/cleanup once Promise.all has resolved.
CleanupResponse(ids, results) ==
    [req |-> "cleanup", addr |-> <<>>, status |-> 200,
     summary |-> CleanupSummary(ids, results),
     sessionId |-> <<>>, error |-> "none"]

\* The handler of a cleanup request that found the keys ids in the map.
CleanupHandler(n, ids) ==
    [n |-> n,
     st |-> IF Len(ids) = 0 THEN "done" ELSE "running",
     ids |-> ids,
     pending |-> {ids[i] : i \in 1..Len(ids)},
     results |-> {},
     threw |-> {}]

\* POST /sessions/cleanup up to `await Promise.all(cleanupPromises)`: the
\* keys are copied and close() is called on every record in the same turn,
\* whatever other handlers wait for closes of the same instances.  With an
\* empty map Promise.all([]) resolves at once.
CleanupRequest ==
    /\ Accept("cleanup", <<>>, {sessions[i].localId : i \in 1..Len(sessions)})
    /\ LET ids == [i \in 1..Len(sessions) |-> sessions[i].localId]
       IN /\ cleanup' = Append(cleanup, CleanupHandler(Arriving, ids))
          /\ response' = IF Len(ids) = 0 THEN CleanupResponse(ids, {})
                         ELSE response
    /\ UNCHANGED <<sessions, minted, starts, actions, deletes>>
    /\ Serving
    /\ UNCHANGED <<supervisorVars, poll, caught, logged>>

\* stagehand.close() settles for one record of a cleanup handler.  It
\* returned: sessions.delete(localSessionId) and a result with success:
\* true.  It threw: the catch block returns a result with success: false.
\* When it was the last one of its handler, Promise.all resolves and the
\* response is sent.
CleanupCloseSettles ==
    /\ \E k \in 1..Len(cleanup) :
          /\ cleanup[k].st = "running"
          /\ \E l \in cleanup[k].pending, ok \in BOOLEAN :
                LET c == cleanup[k]
                    results == c.results
                                 \cup {[localSessionId |-> l, success |-> ok]}
                    pending == c.pending \ {l}
                    threw == IF ok THEN c.threw ELSE c.threw \cup {l}
                IN /\ sessions' = IF ok THEN MapDelete(sessions, l)
                                  ELSE sessions
                   /\ cleanup' =
                         [cleanup EXCEPT
                            ![k] = [c EXCEPT
                                      !.st = IF pending = {} THEN "done"
                                             ELSE @,
                                      !.pending = pending,
                                      !.results = results,
                                      !.threw = threw]]
                   /\ response' = IF pending = {}
                                  THEN CleanupResponse(c.ids, results)
                                  ELSE response
    /\ UNCHANGED <<minted, starts, actions, deletes, registryHist>>
    /\ Serving
    /\ UNCHANGED <<supervisorVars, poll, caught, logged>>

\* Mutation: gracefulShutdown without sessions.clear().
ClearedMapKeeps(map) == map

\* sessions.clear()
ClearedMap(map) == <<>>

\* gracefulShutdown(signal) up to `await Promise.race([...])`: close() is
\* called on every record of the map in one loop, and the race of all those
\* closes against a 5 second timer is awaited.  With an empty map the race
\* is won at once: sessions.clear() and process.exit(0).  A further signal
\* while one call waits runs the function again.
GracefulShutdown ==
    /\ graceful.st # "exited"
    /\ graceful.signals < MaxSignals
    /\ LET ids == {sessions[i].localId : i \in 1..Len(sessions)}
       IN /\ graceful' = [st |-> IF ids = {} THEN "exited" ELSE "closing",
                          races |-> Append(graceful.races, ids),
                          signals |-> graceful.signals + 1]
          /\ sessions' = IF ids = {} THEN ClearedMap(sessions) ELSE sessions
          /\ IF ids = {} THEN HandlersGone
             ELSE UNCHANGED <<starts, actions, deletes, cleanup>>
          /\ registryHist' =
                [registryHist EXCEPT
                   !.closeCalls = [l \in LocalIds |->
                                     IF l \in ids THEN @[l] + 1 ELSE @[l]]]
    /\ UNCHANGED <<minted, response>>
    /\ UNCHANGED <<supervisorVars, poll, caught, logged>>

\* A close() called by gracefulShutdown settles; whether it returned or
\* threw is only logged.  When it was the last one of its call,
\* Promise.all wins the race: sessions.clear() and process.exit(0).
GracefulCloseSettles ==
    /\ graceful.st = "closing"
    /\ \E k \in 1..Len(graceful.races) :
          \E l \in graceful.races[k], ok \in BOOLEAN :
             LET left == graceful.races[k] \ {l}
             IN /\ graceful' = [graceful EXCEPT
                                  !.races[k] = left,
                                  !.st = IF left = {} THEN "exited" ELSE @]
                /\ sessions' = IF left = {} THEN ClearedMap(sessions)
                               ELSE sessions
                /\ IF left = {} THEN HandlersGone
                   ELSE UNCHANGED <<starts, actions, deletes, cleanup>>
    /\ UNCHANGED <<minted, response, registryHist>>
    /\ UNCHANGED <<supervisorVars, poll, caught, logged>>

\* The 5 second timer of a gracefulShutdown call wins its race:
\* sessions.clear() and process.exit(0), whatever closes are pending.  With
\* the process its request handlers in flight are gone.
GracefulTimeout ==
    /\ graceful.st = "closing"
    /\ graceful' = [graceful EXCEPT !.st = "exited"]
    /\ sessions' = ClearedMap(sessions)
    /\ HandlersGone
    /\ UNCHANGED <<minted, response, registryHist>>
    /\ UNCHANGED <<supervisorVars, poll, caught, logged>>

InitRegistry ==
    /\ SupervisorInit
    /\ poll = NoPoll
    /\ RegistryInit
    /\ caught = NoCaught
    /\ logged = NoLogged

NextRegistry ==
    \/ StartSession
    \/ InitSettles
    \/ ActionRequest
    \/ PageSettles
    \/ DeleteRequest
    \/ DeleteSettles
    \/ CleanupRequest
    \/ CleanupCloseSettles
    \/ GracefulShutdown
    \/ GracefulCloseSettles
    \/ GracefulTimeout

SpecRegistry == InitRegistry /\ [][NextRegistry]_vars

\* The 5 second timer of gracefulShutdown fires if the process has not
\* exited before.
FairSpecRegistry == SpecRegistry /\ WF_vars(GracefulTimeout)

\* ------------------------------------------------- errors of an action
\* A message is a sequence of pieces of text; its text is their
\* concatenation.  MaxPieces bounds the messages the page throws.
MaxPieces == 2

ClosedText == "Target page, context or browser has been closed"
TimeoutText == "Navigation timeout"
ConnectText == "Cannot connect to session"

Pieces == {ClosedText, TimeoutText, " exceeded", ConnectText, "boom"}

RECURSIVE SeqsUpTo(_, _)
SeqsUpTo(S, n) ==
    IF n = 0 THEN {<<>>}
    ELSE LET shorter == SeqsUpTo(S, n - 1)
         IN shorter \cup {Append(m, p) : m \in shorter, p \in S}

\* The messages of the errors the page throws.
Messages == SeqsUpTo(Pieces, MaxPieces)

\* message.includes(text), for a text that is one piece.
Includes(message, text) == \E i \in 1..Len(message) : message[i] = text

\* The methods whose call into the page is wrapped in a try/catch of its
\* own, with the prefix of the error that catch throws.
Wrapped == {"act", "observe", "extract"}

WrapPrefix(method) ==
    CASE method = "act" -> "Act failed: "
      [] method = "observe" -> "Observe failed: "
      [] method = "extract" -> "Extract failed: "

\* The message of the error that reaches the catch block of the handler.
CaughtMessage(method, thrown) ==
    IF method \in Wrapped THEN <<WrapPrefix(method)>> \o thrown ELSE thrown

\* Mutation: the navigation timeout is tested before the closed browser.
RewriteTimeoutFirst(message) ==
    IF Includes(message, TimeoutText)
    THEN <<TimeoutText, " exceeded">>
    ELSE IF Includes(message, ClosedText)
    THEN <<"Browser session has been closed or terminated">>
    ELSE IF Includes(message, ConnectText)
    THEN <<"Session is no longer available">>
    ELSE IF message = <<>> THEN <<"Unknown error">>
    ELSE message

\* errorMessage: error.message || 'Unknown error', replaced by the fixed
\* text of the first of the three tests that the message passes.
Rewrite(message) ==
    IF Includes(message, ClosedText)
    THEN <<"Browser session has been closed or terminated">>
    ELSE IF Includes(message, TimeoutText)
    THEN <<TimeoutText, " exceeded">>
    ELSE IF Includes(message, ConnectText)
    THEN <<"Session is no longer available">>
    ELSE IF message = <<>> THEN <<"Unknown error">>
    ELSE message

\* The names of the errors the page throws.
ErrorNames == {"Error", "TimeoutError", "TypeError"}

\* The first line of the stack of an error with the given name and
\* message: the name alone when the message is empty.
StackLine(name, message) ==
    IF message = <<>> THEN <<name>> ELSE <<name, ": ">> \o message

\* details: error.stack ? error.stack.split('\n')[0] : 'No additional
\* details'
Details(stack) == IF stack = <<>> THEN <<"No additional details">> ELSE stack

\* The page throws in the call of some method: an error with a name and a
\* message, with or without a stack.
InitErrors ==
    /\ SupervisorInit
    /\ poll = NoPoll
    /\ RegistryInit
    /\ logged = NoLogged
    /\ caught \in {[NoCaught EXCEPT !.phase = "thrown", !.method = m,
                                     !.name = e, !.thrown = t,
                                     !.hasStack = s] :
                       m \in Methods \ {"bogus"}, e \in ErrorNames,
                       t \in Messages, s \in BOOLEAN}

\* catch (actError) { throw new Error(`Act failed: ${actError.message}`) },
\* and the same for observe and extract: a new error named "Error", with a
\* stack of its own.
WrapError ==
    /\ caught.phase = "thrown"
    /\ caught.method \in Wrapped
    /\ caught' = [caught EXCEPT
                     !.phase = "caught",
                     !.message = CaughtMessage(caught.method, caught.thrown),
                     !.stack = StackLine("Error",
                                         CaughtMessage(caught.method,
                                                       caught.thrown))]
    /\ UNCHANGED <<supervisorVars, poll, registryVars, logged>>

\* The error of page.goto or page.screenshot reaches the catch block of the
\* handler as it was thrown.
PropagateError ==
    /\ caught.phase = "thrown"
    /\ caught.method \notin Wrapped
    /\ caught' = [caught EXCEPT
                     !.phase = "caught",
                     !.message = CaughtMessage(caught.method, caught.thrown),
                     !.stack = IF caught.hasStack
                               THEN StackLine(caught.name, caught.thrown)
                               ELSE <<>>]
    /\ UNCHANGED <<supervisorVars, poll, registryVars, logged>>

\* The catch block of the handler: res.status(500).json({ success: false,
\* error: errorMessage, details })
AnswerError ==
    /\ caught.phase = "caught"
    /\ caught' = [caught EXCEPT
                     !.phase = "answered",
                     !.error = Rewrite(caught.message),
                     !.details = Details(caught.stack)]
    /\ UNCHANGED <<supervisorVars, poll, registryVars, logged>>

NextErrors ==
    \/ WrapError
    \/ PropagateError
    \/ AnswerError

SpecErrors == InitErrors /\ [][NextErrors]_vars

\* -------------------------------------------------- output of a child
\* The message of a 'data' event is a sequence of words separated by
\* blanks; MaxWords bounds it.  It is trimmed and not empty.
MaxWords == 3

\* A word that matches /\d{4}-\d{2}-\d{2}\s+\d{2}:\d{2}:\d{2}/.
TimestampWord == "2025-08-28 16:16:32"

\* The alternatives of /\b(DEBUG|INFO|WARNING|ERROR|CRITICAL)\b/.
LevelWords == {"DEBUG", "INFO", "WARNING", "ERROR", "CRITICAL"}

\* Words of child output: a timestamp, the level names, and words that are
\* no level names to the regular expression.
Words == {TimestampWord} \cup LevelWords \cup {"info", "started"}

OutputMessages == SeqsUpTo(Words, MaxWords) \ {<<>>}

\* name.toUpperCase()
ToUpperCase(name) ==
    CASE name = "stagehand" -> "STAGEHAND"
      [] name = "backend" -> "BACKEND"
      [] name = "frontend" -> "FRONTEND"

\* message.match(/\b(DEBUG|...)\b/): the leftmost level name, or 'INFO'
\* when there is none.
MatchedLevel(message) ==
    LET hits == {i \in 1..Len(message) : message[i] \in LevelWords}
    IN IF hits = {} THEN "INFO" ELSE message[First(hits)]

\* Mutation: CRITICAL is kept as it is.
DetectedLevelKeepsCritical(message) ==
    IF MatchedLevel(message) = "DEBUG" THEN "INFO" ELSE MatchedLevel(message)

\* detectedLevel after the two conversions.
DetectedLevel(message) ==
    CASE MatchedLevel(message) = "CRITICAL" -> "ERROR"
      [] MatchedLevel(message) = "DEBUG" -> "INFO"
      [] OTHER -> MatchedLevel(message)

\* Mutation: the regular expression of the timestamp without its `^`.
HasTimestampAnywhere(message) ==
    \E i \in 1..Len(message) : message[i] = TimestampWord

\* /^\d{4}-\d{2}-\d{2}\s+\d{2}:\d{2}:\d{2}/.test(message)
HasTimestamp(message) == message[1] = TimestampWord

\* `[${x}]`
Bracket(x) == "[" \o x \o "]"

\* log(level, message, service): `[${timestamp}] [${level}] [${service}]
\* ${message}`, with the time of the supervisor.
LogLine(level, message, service) ==
    <<"[now]", Bracket(level), Bracket(service)>> \o message

\* Some child has written a message to its stdout or stderr.
InitLog ==
    /\ SupervisorInit
    /\ poll = NoPoll
    /\ RegistryInit
    /\ caught = NoCaught
    /\ logged \in {[NoLogged EXCEPT !.phase = "data",
                                     !.service = ToUpperCase(s),
                                     !.message = m] :
                       s \in Services, m \in OutputMessages}

\* logProcessOutput, branch hasTimestamp: `[${detectedLevel}] [${service}]
\* ${message}` goes to the log file and the console.
LogStamped ==
    /\ logged.phase = "data"
    /\ HasTimestamp(logged.message)
    /\ logged' = [logged EXCEPT
                     !.phase = "written",
                     !.out = <<Bracket(DetectedLevel(logged.message)),
                               Bracket(logged.service)>> \o logged.message]
    /\ UNCHANGED <<supervisorVars, poll, registryVars, caught>>

\* logProcessOutput, else branch: this.log(detectedLevel, message, service).
LogUnstamped ==
    /\ logged.phase = "data"
    /\ ~HasTimestamp(logged.message)
    /\ logged' = [logged EXCEPT
                     !.phase = "written",
                     !.out = LogLine(DetectedLevel(logged.message),
                                     logged.message, logged.service)]
    /\ UNCHANGED <<supervisorVars, poll, registryVars, caught>>

NextLog ==
    \/ LogStamped
    \/ LogUnstamped

SpecLog == InitLog /\ [][NextLog]_vars

\* ================================================================ claims
Spawned(s) == Len(handles[s]) > 0

\* The handle the process table holds for s (s is tracked).
Tracked(s) == handles[s][processes[s]]

Delivered(h, sig) == \E k \in 1..Len(h.signals) : h.signals[k] = sig

\* The handle the shutdown race of s is about.
RaceHandle(s) == handles[s][shutdownPromises[s].h]

\* The service whose health start() waits for before it spawns d.
Predecessor(d) == IF d = "backend" THEN "stagehand" ELSE "backend"

\* start() has just spawned d and has not moved on.
JustSpawned(d) ==
    \/ d = "backend" /\ startPc = "pause"
    \/ d = "frontend" /\ startPc = "hc_backend"

\* C1 as stated: when start() has spawned backend (frontend), the health
\* check of stagehand (backend) has been observed successful.
C1_HealthyBeforeDependent ==
    \A d \in {"backend", "frontend"} :
        JustSpawned(d) =>
            lastHealth = [name |-> Predecessor(d), healthy |-> TRUE]

\* C1 amended: start() spawns stagehand, backend, frontend in this order;
\* backend is spawned only after waitForHealthcheck('stagehand') has
\* returned, with either result; frontend is spawned after backend and the
\* pause, before any health wait for backend has returned.
C1_SpawnOrder ==
    /\ Spawned("backend") => Spawned("stagehand") /\ lastHealth.name # "none"
    /\ Spawned("frontend") => Spawned("backend")
    /\ JustSpawned("backend") => lastHealth.name = "stagehand"
    /\ JustSpawned("frontend") => lastHealth.name = "stagehand"

\* Backend was spawned although the stagehand health check timed out, and
\* frontend was spawned with backend's health never looked at.
C1_Witness ==
    /\ startPc = "hc_backend"
    /\ Spawned("frontend")
    /\ lastHealth = [name |-> "stagehand", healthy |-> FALSE]
    /\ ~isShuttingDown

\* C2: the restart counter of every service is at most maxRestarts, in
\* every reachable state.
C2_RestartCountBounded ==
    \A s \in Services : restartCounts[s] <= maxRestarts

\* A service used its whole budget and failed once more.
C2_Witness ==
    \E s \in Services :
        /\ restartCounts[s] = maxRestarts
        /\ firstTrigger = "budget"
        /\ isShuttingDown
        /\ Len(handles[s]) = maxRestarts + 1

\* An 'exit' of a handle of s that is logged as unexpected happens in this
\* step.
UnexpectedExitStep(s) ==
    /\ ~isShuttingDown
    /\ \E i \in 1..Len(handles[s]) :
           handles[s][i].alive /\ ~handles'[s][i].alive

\* C3: an unexpected exit of a service whose counter is at maxRestarts (its
\* (maxRestarts+1)-th failure) starts the shutdown sequence with exit code 1
\* and schedules no restart; the supervisor then exits with status 1; no
\* service is spawned more than 1 + maxRestarts times.
C3_BudgetExhaustedIsFatal ==
    /\ [][\A s \in Services :
            (UnexpectedExitStep(s) /\ restartCounts[s] = maxRestarts) =>
                /\ isShuttingDown'
                /\ exitCode' = 1
                /\ firstTrigger' = "budget"
                /\ restartCounts' = restartCounts
                /\ restartTimers' = restartTimers
                /\ \A r \in Services : Len(handles'[r]) = Len(handles[r])]_vars
    /\ [](\A s \in Services : Len(handles[s]) <= maxRestarts + 1)
    /\ [](exited /\ firstTrigger = "budget" => exitStatus = 1)

\* The supervisor has exited with 1 after the fourth failure of a service.
C3_Witness ==
    /\ exited
    /\ exitStatus = 1
    /\ firstTrigger = "budget"
    /\ \E s \in Services :
          restartCounts[s] = maxRestarts /\ Len(handles[s]) = maxRestarts + 1

\* How often shutdown() sent its graceful signal to h.
Count(h, sig) == Cardinality({k \in 1..Len(h.signals) : h.signals[k] = sig})

\* C4: whatever the triggers and their order, the shutdown sequence runs at
\* most once, no handle gets its graceful signal twice, process.exit is
\* called at most once, and a trigger that arrives while shutdown is in
\* progress changes nothing.
C4_ShutdownIdempotent ==
    /\ [](/\ hist.shutdownRuns <= 1
          /\ hist.exitCalls <= 1
          /\ isShuttingDown <=> hist.shutdownRuns = 1
          /\ exited <=> hist.exitCalls = 1
          /\ \A s \in Services : \A i \in 1..Len(handles[s]) :
                Count(handles[s][i], GracefulSignal) <= 1)
    /\ [][(isShuttingDown /\ triggers' # triggers) =>
             UNCHANGED <<processes, handles, restartCounts, restartTimers,
                         isShuttingDown, shutdownPromises, exitCode,
                         logStreamOpen, exited, exitStatus, hist, startPc,
                         lastHealth, firstTrigger>>]_vars

\* Two external triggers arrived and the supervisor exited after one
\* shutdown sequence over all three services.
C4_Witness ==
    /\ triggers = 2
    /\ exited
    /\ hist.shutdownRuns = 1
    /\ hist.exitCalls = 1
    /\ \A s \in Services :
          hist.tableAtShutdown[s] # 0 /\ Delivered(Tracked(s), GracefulSignal)

\* C5 as stated: when the log stream is closed and process.exit called,
\* every handle in the process table has emitted 'exit' (or never ran) or
\* has been sent the force-kill signal.
C5_ExitOnlyAfterChildrenStopped ==
    (exited \/ ~logStreamOpen) =>
        \A s \in Services :
            processes[s] # 0 =>
                \/ ~Tracked(s).alive
                \/ Delivered(Tracked(s), ForceSignal)

\* C6: the supervisor exits with 0 when the shutdown was started by a
\* signal and with 1 when it was started by a fault, by budget exhaustion
\* or by a startup failure.
C6_ExitStatus ==
    exited =>
        /\ firstTrigger \in {"signal", "fault", "budget", "startup"}
        /\ exitStatus = IF firstTrigger = "signal" THEN 0 ELSE 1

\* A signal-initiated shutdown ended with status 0 although a fault
\* arrived during it.
C6_Witness ==
    /\ exited
    /\ firstTrigger = "signal"
    /\ exitStatus = 0
    /\ triggers = 2

\* C7: a signal or fault puts the supervisor into shutdown; from then on an
\* 'exit' of a child changes no restart counter and arms no restart timer,
\* and a restart timer that fires spawns nothing.
C7_NoRestartDuringShutdown ==
    /\ [](triggers > 0 => isShuttingDown)
    /\ [][isShuttingDown =>
            \A s \in Services :
               /\ (\E i \in 1..Len(handles[s]) :
                      handles[s][i].alive /\ ~handles'[s][i].alive)
                     => restartCounts' = restartCounts
                        /\ restartTimers' = restartTimers
               /\ restartTimers'[s] < restartTimers[s]
                     => handles' = handles /\ processes' = processes]_vars

\* During a signal- or fault-initiated shutdown a pending restart timer
\* has fired without spawning, and a child has exited without being counted.
C7_Witness ==
    /\ isShuttingDown
    /\ firstTrigger \in {"signal", "fault"}
    /\ \E s \in Services :
          /\ restartCounts[s] > 0
          /\ restartTimers[s] = 0
          /\ Len(handles[s]) = restartCounts[s]
    /\ \E s \in Services :
          /\ shutdownPromises[s].st = "exit"
          /\ restartCounts[s] = 0

\* C8: every handle the table held when shutdown() ran has a race; a handle
\* that was running then got the graceful signal first; the force-kill
\* signal is delivered only by a race's timeout, after the graceful one,
\* and never to a handle whose 'exit' settled the race.
C8_GracefulThenForce ==
    /\ \A s \in Services :
          (isShuttingDown /\ hist.tableAtShutdown[s] # 0) =>
              /\ shutdownPromises[s].st # "none"
              /\ shutdownPromises[s].h = hist.tableAtShutdown[s]
    /\ \A s \in Services :
          shutdownPromises[s].st # "none" =>
              /\ (RaceHandle(s).alive \/ shutdownPromises[s].st = "exit") =>
                     /\ RaceHandle(s).signals # <<>>
                     /\ RaceHandle(s).signals[1] = "SIGTERM"
              /\ shutdownPromises[s].st = "exit" =>
                     RaceHandle(s).signals = <<"SIGTERM">>
              /\ shutdownPromises[s].st = "pending" =>
                     ~Delivered(RaceHandle(s), "SIGKILL")
    /\ \A s \in Services : \A i \in 1..Len(handles[s]) :
          Delivered(handles[s][i], "SIGKILL") =>
              /\ shutdownPromises[s] = [h |-> i, st |-> "timeout"]
              /\ handles[s][i].signals = <<"SIGTERM", "SIGKILL">>

\* One child left on the graceful signal, another had to be force-killed.
C8_Witness ==
    /\ isShuttingDown
    /\ \E s1, s2 \in Services :
          /\ shutdownPromises[s1].st = "exit"
          /\ RaceHandle(s1).signals = <<"SIGTERM">>
          /\ shutdownPromises[s2].st = "timeout"
          /\ RaceHandle(s2).signals = <<"SIGTERM", "SIGKILL">>

\* C9: while the supervisor waits on the race of any process, every process
\* the table held when shutdown() ran has its own race and, if it still
\* runs, has been sent the graceful signal.
C9_RacesConcurrent ==
    \A s1, s2 \in Services :
        (shutdownPromises[s1].st = "pending" /\ hist.tableAtShutdown[s2] # 0) =>
            /\ shutdownPromises[s2].st \in {"pending", "exit", "timeout"}
            /\ Tracked(s2).alive => Delivered(Tracked(s2), "SIGTERM")

\* A child that ignores the graceful signal is still waited on while
\* another child's race has been settled by its exit and a third has been
\* signalled.
C9_Witness ==
    \E s1, s2, s3 \in Services :
        /\ s1 # s2 /\ s2 # s3 /\ s1 # s3
        /\ shutdownPromises[s1].st = "pending" /\ RaceHandle(s1).alive
        /\ shutdownPromises[s2].st = "exit"
        /\ shutdownPromises[s3].st = "pending"
        /\ Delivered(RaceHandle(s3), "SIGTERM")

\* waitForHealthcheck returns false (timeout) in this step.
HealthTimeoutStep == lastHealth' # lastHealth /\ ~lastHealth'.healthy

\* C10: the step in which a health check times out changes no restart
\* counter, timer, handle or table entry and starts no shutdown, and start()
\* goes on: to the spawn of backend after stagehand, to the next health
\* wait after backend, to the end of start() after frontend.
C10_TimeoutNotFatal ==
    [][HealthTimeoutStep =>
          /\ UNCHANGED <<processes, handles, restartCounts, restartTimers,
                         isShuttingDown, shutdownPromises, exitCode,
                         exited, hist>>
          /\ startPc' = CASE startPc = "hc_stagehand" -> "cleanup"
                          [] startPc = "hc_backend" -> "hc_frontend"
                          [] OTHER -> "started"]_vars

\* Stagehand timed out and backend was spawned all the same, with nothing
\* restarted and no shutdown.
C10_Witness ==
    /\ lastHealth = [name |-> "stagehand", healthy |-> FALSE]
    /\ startPc = "pause"
    /\ Spawned("backend") /\ Tracked("backend").alive
    /\ Tracked("stagehand").alive
    /\ ~isShuttingDown
    /\ \A s \in Services : restartCounts[s] = 0

\* The restart timer of s fires in this step and the re-spawn succeeds.
RespawnStep(s) ==
    /\ restartTimers'[s] = restartTimers[s] - 1
    /\ Len(handles'[s]) = Len(handles[s]) + 1
    /\ handles'[s][Len(handles'[s])].alive

\* C11: an unexpected exit of a service s whose counter is below
\* maxRestarts adds one to the counter of s and arms one restart timer for
\* s, and changes no other counter, no table entry and no handle of another
\* service, and starts no shutdown; the step in which that timer fires and
\* the re-spawn succeeds sends SIGTERM to the handle the table held for s,
\* appends one new handle of s and tracks it, and changes no counter and no
\* handle or table entry of another service.
C11_RestartTouchesOneService ==
    [][\A s \in Services :
          /\ (UnexpectedExitStep(s) /\ restartCounts[s] < maxRestarts) =>
                /\ restartCounts' = [restartCounts EXCEPT ![s] = @ + 1]
                /\ restartTimers' = [restartTimers EXCEPT ![s] = @ + 1]
                /\ processes' = processes
                /\ Len(handles'[s]) = Len(handles[s])
                /\ \A r \in Services \ {s} : handles'[r] = handles[r]
                /\ ~isShuttingDown'
          /\ RespawnStep(s) =>
                /\ processes[s] # 0
                /\ handles'[s] =
                      Append([handles[s] EXCEPT
                                 ![processes[s]] = Kill(@, "SIGTERM")],
                             NewHandle(TRUE))
                /\ processes' =
                      [processes EXCEPT ![s] = Len(handles[s]) + 1]
                /\ restartCounts' = restartCounts
                /\ restartTimers' = [restartTimers EXCEPT ![s] = @ - 1]
                /\ \A r \in Services \ {s} : handles'[r] = handles[r]]_vars

\* One service has failed once and has been re-spawned; the others run
\* their first process with a counter of 0.
C11_Witness ==
    /\ ~isShuttingDown
    /\ \E s \in Services :
          /\ restartCounts[s] = 1 /\ restartTimers[s] = 0
          /\ Len(handles[s]) = 2 /\ processes[s] = 2
          /\ ~handles[s][1].alive /\ handles[s][2].alive
          /\ \A r \in Services \ {s} :
                /\ restartCounts[r] = 0
                /\ Len(handles[r]) = 1 /\ handles[r][1].alive

\* A spawn of s fails in this step: its handle emits 'error'.
SpawnErrorStep(s) ==
    /\ Len(handles'[s]) = Len(handles[s]) + 1
    /\ ~handles'[s][Len(handles'[s])].alive

\* C12 as stated: whenever a handle of s emits 'error', the restart counter,
\* the restart timers armed and the shutdown decision change exactly as the
\* 'exit' listener would have changed them in that state.  (A restart
\* timer step, which leaves startPc alone, has consumed one timer of s.)
C12_ErrorSameAsExit ==
    [][\A s \in Services :
          SpawnErrorStep(s) =>
              LET X == ExitListener(Cur, s)
                  fired == IF startPc' = startPc THEN 1 ELSE 0
              IN /\ restartCounts' = X.restartCounts
                 /\ restartTimers'[s] = X.restartTimers[s] - fired
                 /\ isShuttingDown' = X.isShuttingDown
                 /\ exitCode' = X.exitCode]_vars

\* C13: a call of waitForHealthcheck never polls more than maxAttempts (30)
\* times and sleeps once after each poll but the last; when it has returned, it
\* returned true exactly if one of the first 30 polls succeeded, after as
\* many polls as the number k of the first successful one (polls 1..k-1
\* failed, none was made after k), and false exactly if all 30 polls failed;
\* and this is the result the folded operator WaitForHealthcheck computes.
\* For stagehand the 1 second wait before the cleanup request lies between
\* the successful poll and the return; no poll is made during or after it.
C13_HealthPolling ==
    /\ poll.polls <= maxAttempts
    /\ poll.sleeps = IF poll.phase \in {"returned", "wait1s"}
                     THEN poll.polls - 1
                     ELSE poll.polls
    /\ poll.phase = "wait1s" =>
          /\ poll.name = "stagehand"
          /\ poll.polls = poll.firstOk
          /\ ~poll.healthy
    /\ poll.cleanups =
          (IF poll.phase = "returned" /\ poll.healthy
                /\ poll.name = "stagehand"
           THEN 1 ELSE 0)
    /\ poll.phase = "returned" =>
          /\ poll.healthy <=> poll.firstOk <= maxAttempts
          /\ poll.healthy => poll.polls = poll.firstOk
          /\ ~poll.healthy => poll.polls = maxAttempts
          /\ WaitForHealthcheck(poll.firstOk) =
                [healthy |-> poll.healthy, polls |-> poll.polls]

\* The third poll was the first to succeed: healthy after three polls and
\* two sleeps.
C13_Witness ==
    /\ poll.phase = "returned"
    /\ poll.healthy
    /\ poll.name = "stagehand"
    /\ poll.firstOk = 3 /\ poll.polls = 3 /\ poll.sleeps = 2

\* A waitForHealthcheck call returns to start() in this step, after one or
\* more polls of which any number failed.
HealthcheckStep == HcService # "none" /\ startPc' # startPc

\* C14: the step in which a health check returns, whatever number of its
\* polls failed, changes no restart counter, restart timer, handle or table
\* entry; a restart counter changes only by one and only in a step in which
\* a handle of that service exits unexpectedly or fails to spawn; the table
\* entry of a service changes only at its first spawn or when a restart
\* timer armed by such a failure is pending.
C14_HealthPollsFrame ==
    [][/\ HealthcheckStep =>
             UNCHANGED <<restartCounts, restartTimers, processes, handles>>
       /\ \A s \in Services :
             /\ restartCounts'[s] # restartCounts[s] =>
                   /\ restartCounts'[s] = restartCounts[s] + 1
                   /\ UnexpectedExitStep(s) \/ SpawnErrorStep(s)
             /\ processes'[s] # processes[s] =>
                   processes[s] = 0 \/ restartTimers[s] > 0]_vars

\* The health checks of stagehand and backend have returned, the latter
\* after 30 failed polls; every service still runs its first process and no
\* counter has moved.
C14_Witness ==
    /\ lastHealth = [name |-> "backend", healthy |-> FALSE]
    /\ startPc = "hc_frontend"
    /\ ~isShuttingDown
    /\ \A s \in Services :
          /\ restartCounts[s] = 0 /\ restartTimers[s] = 0
          /\ Len(handles[s]) = 1 /\ processes[s] = 1
          /\ handles[s][1].alive

\* C15: when checkPrerequisites has thrown, no service process has been
\* spawned, nothing has been counted or scheduled for restart, the one
\* shutdown sequence that ran was the one of the catch block of start() and
\* it has called process.exit(1); and nothing happens afterwards: the check
\* is not made again and no process is spawned later.
C15_PrereqFailureAborts ==
    /\ [](startPc = "failed" =>
            /\ exited /\ exitStatus = 1
            /\ firstTrigger = "startup"
            /\ hist.shutdownRuns = 1 /\ hist.exitCalls = 1
            /\ \A s \in Services :
                  /\ handles[s] = <<>> /\ processes[s] = 0
                  /\ restartCounts[s] = 0 /\ restartTimers[s] = 0)
    /\ [][startPc # "failed"]_vars

\* A prerequisite was missing: the supervisor has exited with status 1
\* without having spawned anything.
C15_Witness ==
    /\ startPc = "failed"
    /\ exited /\ exitStatus = 1
    /\ \A s \in Services : ~Spawned(s)

\* The supervisor has delivered SIGTERM to a stagehand process.
SupervisorTriggered ==
    \E i \in 1..Len(handles["stagehand"]) :
        Delivered(handles["stagehand"][i], "SIGTERM")

\* The session registry lives in the stagehand process, which runs its
\* gracefulShutdown (close every tracked session, clear the map, exit) when
\* it receives SIGTERM or SIGINT, from the supervisor or from anyone else,
\* or catches a fault: registry cleanup has been triggered when one of
\* these has happened in a stagehand process.
RegistryCleanupTriggered ==
    SupervisorTriggered \/ hist.childShutdown

\* shutdown() runs in this step.
ShutdownStartStep == ~isShuttingDown /\ isShuttingDown'

\* The table holds a handle of s whose process has not exited by the end of
\* this step.
RunsAfterStep(s) ==
    processes'[s] # 0 /\ handles'[s][processes'[s]].alive

\* C16 as stated: when a signal to the supervisor starts the supervised
\* shutdown of the children, registry cleanup has been triggered before.
C16_CleanupBeforeShutdown ==
    [][(ShutdownStartStep /\ firstTrigger' = "signal") =>
           RegistryCleanupTriggered]_vars

\* C16, amended: the supervisor never triggers registry cleanup before its
\* shutdown sequence runs; the step in which shutdown() runs sends SIGTERM to
\* every tracked child that is running, stagehand among them, and that
\* SIGTERM is the supervisor's trigger of registry cleanup: it is sent in
\* that step exactly if a stagehand process is tracked and running.  Apart
\* from that step, registry cleanup is triggered only by the stagehand
\* process's own environment (a signal sent to it directly, or a fault in
\* it), in a step that is none of the supervisor's.
C16_CleanupByShutdown ==
    /\ [](SupervisorTriggered => isShuttingDown)
    /\ [][ShutdownStartStep =>
             /\ SupervisorTriggered' <=> RunsAfterStep("stagehand")
             /\ \A s \in Services :
                   RunsAfterStep(s) =>
                       /\ handles'[s][processes'[s]].signals = <<"SIGTERM">>
                       /\ shutdownPromises'[s].st = "pending"]_vars
    /\ [][(~RegistryCleanupTriggered /\ RegistryCleanupTriggered') =>
             \/ ShutdownStartStep /\ SupervisorTriggered'
             \/ /\ hist'.childShutdown
                /\ UNCHANGED <<processes, handles, isShuttingDown,
                               shutdownPromises, startPc>>]_vars

\* A signal has started the shutdown: stagehand and backend have both been
\* sent SIGTERM and neither has exited yet.
C16_Witness ==
    /\ firstTrigger = "signal"
    /\ isShuttingDown /\ ~exited
    /\ RegistryCleanupTriggered
    /\ Tracked("stagehand").alive
    /\ shutdownPromises["stagehand"].st = "pending"
    /\ Spawned("backend") /\ Tracked("backend").alive
    /\ Delivered(Tracked("backend"), "SIGTERM")
    /\ shutdownPromises["backend"].st = "pending"

\* The map holds a record with local identifier l.
InMap(map, l) == Get(map, l) # {}

\* The server takes a request of kind req addressed with a in this step.
RequestStep(req, a) ==
    /\ registryHist'.requests = registryHist.requests + 1
    /\ registryHist'.last.req = req
    /\ registryHist'.last.addr = a

\* A call into the provider library settles for the handler that awaited
\* it, which runs on to its answer in this step.
SettleStep(call) ==
    /\ registryHist'.settled # registryHist.settled
    /\ registryHist'.settled.call = call

\* stagehand.init() settles with the given result in this step.
InitSettlesStep(result) ==
    SettleStep("init") /\ registryHist'.settled.result = result

\* The action handler a gets the outcome of its call into the page and
\* answers in this step (the process does not exit in it).
ActionSettlesStep(a) ==
    a \in actions /\ a \notin actions' /\ graceful' = graceful

\* An action request addressed with a is answered with the given status in
\* the turn in which it arrives: no handler is left waiting.
Rejected(a, status) ==
    /\ actions' = actions
    /\ response'.req = "action"
    /\ response'.addr = a
    /\ response'.status = status

\* The DELETE handler d gets the outcome of its close() call and answers in
\* this step (the process does not exit in it).
DeleteSettlesStep(d) ==
    d \in deletes /\ d \notin deletes' /\ graceful' = graceful

\* C17 as stated: when the DELETE handler of a tracked session has got the
\* outcome of stagehand.close(), whether it returned or threw, the record is
\* no longer in the map.
C17_CloseAlwaysRemoves ==
    [][\A d \in deletes :
          DeleteSettlesStep(d) => ~InMap(sessions', d.localId)]_vars

\* The k-th cleanup handler sends its response in this step: the last of
\* its closes settles, or it has found the map empty.
CleanupCompletesStep(k) ==
    /\ k \in 1..Len(cleanup')
    /\ cleanup'[k].st = "done"
    /\ k > Len(cleanup) \/ cleanup[k].st = "running"

\* The local identifiers copied when the cleanup request arrived.
CleanupIds(c) == {c.ids[i] : i \in 1..Len(c.ids)}

\* C18 as stated: when a bulk cleanup has answered, none of the N records
\* that were tracked when it was requested is in the map, however many of
\* the close calls threw.
C18_CleanupRemovesAll ==
    [][\A k \in 1..Len(cleanup') :
          CleanupCompletesStep(k) =>
              \A l \in CleanupIds(cleanup'[k]) : ~InMap(sessions', l)]_vars

\* C19: a bulk cleanup requested with N tracked sessions calls close() on
\* every one of them in the turn of the request: each is waiting for its
\* close or has its result, also after another one has thrown and whatever
\* other cleanup handlers run; it answers when all N have a result, and its
\* summary is total = N, failed = M, the number of its close calls that
\* threw, successful = N - M.
C19_CleanupCounts ==
    /\ [](\A k \in 1..Len(cleanup) :
            /\ CleanupIds(cleanup[k]) =
                  cleanup[k].pending
                    \cup {r.localSessionId : r \in cleanup[k].results}
            /\ cleanup[k].st = "done" <=> cleanup[k].pending = {}
            /\ cleanup[k].threw \subseteq CleanupIds(cleanup[k]))
    /\ [][RequestStep("cleanup", <<>>) =>
             /\ Len(cleanup') = Len(cleanup) + 1
             /\ CleanupIds(cleanup'[Len(cleanup')])
                   = {sessions[i].localId : i \in 1..Len(sessions)}
             /\ \A l \in LocalIds :
                   registryHist'.closeCalls[l] =
                      registryHist.closeCalls[l]
                        + (IF InMap(sessions, l) THEN 1 ELSE 0)]_vars
    /\ [][\A k \in 1..Len(cleanup') :
             CleanupCompletesStep(k) =>
                LET N == Len(cleanup'[k].ids)
                    M == Cardinality(cleanup'[k].threw)
                IN /\ response'.req = "cleanup"
                   /\ response'.status = 200
                   /\ response'.summary.total = N
                   /\ response'.summary.failed = M
                   /\ response'.summary.successful = N - M]_vars

\* A cleanup of two sessions has answered; one close threw.
C19_Witness ==
    \E k \in 1..Len(cleanup) :
       /\ cleanup[k].st = "done"
       /\ Len(cleanup[k].ids) = 2
       /\ Cardinality(cleanup[k].threw) = 1
       /\ response.req = "cleanup"
       /\ response.summary = [total |-> 2, successful |-> 1, failed |-> 1]

\* C20 as stated: every record in the map is found by its local and by its
\* Browserbase identifier; and an action request addressed with either
\* identifier of a session for which a DELETE request (by either
\* identifier) has been answered gets the status 404.
C20_ResolvedThenNotFound ==
    /\ [](\A i \in 1..Len(sessions) :
            /\ Resolve(sessions, sessions[i].localId) = sessions[i].localId
            /\ Resolve(sessions, sessions[i].bbSessionId)
                  = sessions[i].localId)
    /\ [][\A n \in 1..MaxSessions :
             \A a \in {LocalId(n), BbId(n)} :
                (/\ RequestStep("action", a)
                 /\ LocalId(n) \in registryHist.closed) =>
                    Rejected(a, 404)]_vars

\* C21 as stated: the answer of the DELETE handler of a tracked session is
\* the success response, whether stagehand.close() returned or threw.
C21_CloseAnswersSuccess ==
    [][\A d \in deletes :
          DeleteSettlesStep(d) =>
              /\ response'.req = "delete"
              /\ response'.status = 200]_vars

\* C22: a DELETE request whose identifier is neither the key of a record
\* nor the Browserbase identifier of one is answered with the success
\* response in the same turn; close() is called on no session, no handler
\* is left waiting, and the map is the same afterwards.
C22_UnmatchedCloseIsNoOp ==
    [][\A a \in Addrs :
          (RequestStep("delete", a) /\ Resolve(sessions, a) = NoSession) =>
              /\ response' = Respond("delete", a, 200)
              /\ sessions' = sessions
              /\ registryHist'.closeCalls = registryHist.closeCalls
              /\ UNCHANGED <<starts, actions, deletes, cleanup, minted>>]_vars

\* With one session tracked, a close request addressed with an identifier
\* of no record has been answered.
C22_Witness ==
    /\ Len(sessions) = 1
    /\ registryHist.last.req = "delete"
    /\ Resolve(sessions, registryHist.last.addr) = NoSession
    /\ response = Respond("delete", registryHist.last.addr, 200)
    /\ \A l \in LocalIds : registryHist.closeCalls[l] = 0

\* A step in which gracefulShutdown is called.
GracefulStartStep == graceful'.signals = graceful.signals + 1

\* C23: during the shutdown of the stagehand process close() is called on
\* every record of the map in the same step; the process exits in the very
\* step in which the last close of a gracefulShutdown call settles or its
\* 5 second timer fires, and the map is empty whenever the process has
\* exited; a shutdown that has begun always ends in the exit, also when a
\* close fails or never returns.
C23_ShutdownClearsAndExits ==
    /\ [][GracefulStartStep =>
            /\ \A i \in 1..Len(sessions) :
                  registryHist'.closeCalls[sessions[i].localId]
                      = registryHist.closeCalls[sessions[i].localId] + 1
            /\ graceful'.races[Len(graceful'.races)]
                  = {sessions[i].localId : i \in 1..Len(sessions)}]_vars
    /\ [](graceful.st = "closing" =>
            \A k \in 1..Len(graceful.races) : graceful.races[k] # {})
    /\ [](graceful.st = "exited" => sessions = <<>>)
    /\ (graceful.st = "closing" ~> graceful.st = "exited")

\* C23 witness: the process has exited with an empty map while a close that
\* gracefulShutdown called on a record has not returned.
C23_Witness ==
    /\ graceful.st = "exited"
    /\ sessions = <<>>
    /\ \E k \in 1..Len(graceful.races) :
          \E l \in graceful.races[k] : registryHist.closeCalls[l] > 0

\* A step in which POST /sessions/start is handled.
StartStep == RequestStep("start", <<>>)

\* C24: a session-creation request that lacks the Browserbase API key, the
\* project identifier or the model API key is answered 400 in the turn in
\* which it arrives, makes no call into the provider library, leaves no
\* handler waiting and leaves the map as it was; every handler that waits
\* for stagehand.init() belongs to a request with all three headers.
C24_MissingCredentials ==
    /\ [][\A h \in Headers :
             (/\ StartStep
              /\ registryHist'.last.headers = h
              /\ ~(h.apiKey /\ h.projectId /\ h.modelKey)) =>
                 /\ response'.req = "start"
                 /\ response'.status = 400
                 /\ registryHist'.last.remote = <<>>
                 /\ registryHist'.closeCalls = registryHist.closeCalls
                 /\ starts' = starts
                 /\ sessions' = sessions]_vars
    /\ [](\A s \in starts :
            s.headers.apiKey /\ s.headers.projectId /\ s.headers.modelKey)

\* C24 witness: with a record in the map, a creation request that carries
\* both Browserbase headers and no model API key has been answered 400.
C24_Witness ==
    /\ registryHist.last.req = "start"
    /\ registryHist.last.headers
          = [apiKey |-> TRUE, projectId |-> TRUE, modelKey |-> FALSE]
    /\ response.req = "start"
    /\ response.status = 400
    /\ Len(sessions) = 1

\* The call that settled last was a stagehand.init() with the given result.
InitSettled(result) ==
    /\ registryHist.settled.call = "init"
    /\ registryHist.settled.result = result

\* C25: when stagehand.init() has returned and the instance carries no
\* session identifier, the creation request is answered with an error
\* (500) in that step, and neither that step nor the one in which the
\* request arrived changes the map.
C25_NoProviderIdNoRecord ==
    /\ [][InitSettlesStep("no_provider_id") =>
             /\ response'.req = "start"
             /\ response'.status = 500
             /\ response'.addr = <<>>
             /\ sessions' = sessions
             /\ minted' = minted]_vars
    /\ [][StartStep => sessions' = sessions /\ minted' = minted]_vars

\* C25 witness: with a record in the map, a creation request whose
\* provider session came without an identifier has been answered 500.
C25_Witness ==
    /\ InitSettled("no_provider_id")
    /\ response.req = "start"
    /\ response.status = 500
    /\ Len(sessions) = 1

\* The headers of a creation request that passes both checks.
AllHeaders == [apiKey |-> TRUE, projectId |-> TRUE, modelKey |-> TRUE]

\* C26: a creation whose stagehand.init() returns with an identifier
\* appends, in the step in which it returns, exactly one record to the map,
\* under a local identifier that is no key of the map before, and the
\* response carries that local identifier and the record's Browserbase
\* identifier; the handler is the one of a request with all three headers.
C26_CreationAddsOneRecord ==
    [][InitSettlesStep("ok") =>
          \E l \in LocalIds :
             /\ \E s \in starts :
                   /\ s \notin starts'
                   /\ s.headers = AllHeaders
                   /\ s.n = registryHist'.settled.n
             /\ ~InMap(sessions, l)
             /\ response'.req = "start"
             /\ response'.status = 200
             /\ response'.addr = l
             /\ response'.sessionId # <<>>
             /\ sessions' = Append(sessions,
                                   [localId |-> l,
                                    bbSessionId |-> response'.sessionId])]_vars

\* C26 witness: a second session has been created next to a first one, and
\* the response carries the two identifiers of its record.
C26_Witness ==
    /\ Len(sessions) = 2
    /\ InitSettled("ok")
    /\ response.status = 200
    /\ response.addr = sessions[2].localId
    /\ response.sessionId = sessions[2].bbSessionId
    /\ sessions[1].localId # sessions[2].localId

\* C27: an action request whose identifier is neither a key of the map nor
\* the Browserbase identifier of a record is answered 404 "Session not
\* found", whatever its method, without a call into any instance and
\* without a change of the map; no action request that finds a record is
\* answered 404.
C27_UnknownSessionNotFound ==
    /\ [][\A a \in Addrs :
             RequestStep("action", a) =>
                IF Resolve(sessions, a) = NoSession
                THEN /\ Rejected(a, 404)
                     /\ response'.error = "Session not found"
                     /\ registryHist'.last.remote = <<>>
                     /\ registryHist'.closeCalls = registryHist.closeCalls
                     /\ sessions' = sessions
                ELSE \/ Rejected(a, 400)
                     \/ /\ actions' # actions
                        /\ response' = response]_vars
    /\ [][\A a \in actions :
             ActionSettlesStep(a) =>
                /\ response'.req = "action"
                /\ response'.addr = a.addr
                /\ response'.status \in {200, 500}]_vars

\* C27 witness: with a record in the map, a request with an unknown method
\* and an identifier that matches nothing has been answered 404.
C27_Witness ==
    /\ Len(sessions) = 1
    /\ registryHist.last.req = "action"
    /\ registryHist.last.method = "bogus"
    /\ Resolve(sessions, registryHist.last.addr) = NoSession
    /\ response.req = "action"
    /\ response.status = 404

\* C28: in every state of the registry no two records of the map carry the
\* same Browserbase identifier, given that stagehand.init() never returns
\* the identifier of an earlier session.
C28_OneRecordPerRemoteId ==
    \A i, j \in 1..Len(sessions) :
       sessions[i].bbSessionId = sessions[j].bbSessionId => i = j

\* C28 witness: two records are in the map, and the second creation was
\* answered with the Browserbase identifier of the second record only.
C28_Witness ==
    /\ Len(sessions) = 2
    /\ InitSettled("ok")
    /\ response.sessionId = sessions[2].bbSessionId
    /\ response.sessionId # sessions[1].bbSessionId
    /\ Scan(sessions, response.sessionId) = {2}

\* The action names of the interface.
Vocabulary == {"goto", "navigate", "act", "observe", "extract", "screenshot"}

\* The call into the page that belongs to an action of the vocabulary.
CallOf(m) == IF m = "navigate" THEN "page.goto" ELSE "page." \o m

\* C29: an action request that finds a record and names an action of the
\* vocabulary makes, in the turn in which it arrives, exactly one call into
\* the page of the instance, the one of its action, and waits for it; when
\* that call settles the handler makes no further call and answers 200 or,
\* when the call threw, 500; with any other action name the request makes
\* no call and is answered 400 at once.
C29_OneCallPerAction ==
    /\ [][\A a \in Addrs :
             (RequestStep("action", a) /\ Resolve(sessions, a) # NoSession) =>
                LET m == registryHist'.last.method
                    remote == registryHist'.last.remote
                IN /\ registryHist'.closeCalls = registryHist.closeCalls
                   /\ IF m \in Vocabulary
                      THEN /\ remote = <<CallOf(m)>>
                           /\ response' = response
                           /\ actions' =
                                 actions \cup
                                   {[n |-> registryHist'.requests,
                                     addr |-> a, method |-> m,
                                     localId |-> Resolve(sessions, a)]}
                           /\ Cardinality(actions')
                                 = Cardinality(actions) + 1
                      ELSE /\ remote = <<>>
                           /\ Rejected(a, 400)
                           /\ response'.error = "Unknown method"]_vars
    /\ [][\A a \in actions :
             ActionSettlesStep(a) =>
                /\ a.method \in Vocabulary
                /\ registryHist'.settled.n = a.n
                /\ registryHist'.settled.call = CallOf(a.method)
                /\ registryHist'.settled.calls = <<>>
                /\ registryHist'.closeCalls = registryHist.closeCalls
                /\ response'.req = "action"
                /\ response'.addr = a.addr
                /\ response'.status =
                      (IF registryHist'.settled.result = "ok" THEN 200
                       ELSE 500)]_vars

\* C29 witness: a navigate request that named a record by its Browserbase
\* identifier has made the one call page.goto and was answered 200.
C29_Witness ==
    /\ registryHist.last.req = "action"
    /\ registryHist.last.method = "navigate"
    /\ Get(sessions, registryHist.last.addr) = {}
    /\ Scan(sessions, registryHist.last.addr) # {}
    /\ registryHist.last.remote = <<"page.goto">>
    /\ registryHist.settled =
          [n |-> registryHist.requests, call |-> "page.goto",
           result |-> "ok", calls |-> <<>>]
    /\ response.req = "action"
    /\ response.addr = registryHist.last.addr
    /\ response.status = 200

\* The fixed message for the first known text that a message contains, in
\* the order closed browser, navigation timeout, cannot connect; <<>> when
\* it contains none.
Stable(message) ==
    CASE Includes(message, ClosedText) ->
            <<"Browser session has been closed or terminated">>
      [] ~Includes(message, ClosedText) /\ Includes(message, TimeoutText) ->
            <<"Navigation timeout", " exceeded">>
      [] /\ ~Includes(message, ClosedText)
         /\ ~Includes(message, TimeoutText)
         /\ Includes(message, ConnectText) ->
            <<"Session is no longer available">>
      [] OTHER -> <<>>

\* The message contains the text "Navigation timeout exceeded".
HasTimeoutExceeded(message) ==
    \E i \in 1..(Len(message) - 1) :
       message[i] = "Navigation timeout" /\ message[i + 1] = " exceeded"

\* C30 (as stated): the error of the response is the fixed message of the
\* first known text in the message the page threw, and when there is none
\* it is that message itself, with the first line of the stack of the
\* thrown error as details.
C30_RewriteOrPassRaw ==
    caught.phase = "answered" =>
       IF Stable(caught.thrown) # <<>>
       THEN caught.error = Stable(caught.thrown)
       ELSE /\ caught.error = caught.thrown
            /\ caught.hasStack =>
                  caught.details =
                     (IF caught.thrown = <<>> THEN <<caught.name>>
                      ELSE <<caught.name, ": ">> \o caught.thrown)

\* C30 (amended): the error of the response is the fixed message of the
\* first known text in the message the page threw; when there is none it is
\* the thrown message behind "Act failed: ", "Observe failed: " or "Extract
\* failed: " for act, observe and extract, and for goto, navigate and
\* screenshot the thrown message itself, or "Unknown error" when that is
\* empty.  The details are the first line of the stack of the error the
\* handler caught (its name, then ": " and its message unless that is
\* empty), which for act, observe and extract is the wrapping error, named
\* "Error".  An act error with "Navigation timeout exceeded" and without the
\* text of the closed browser is answered "Navigation timeout exceeded".
C30_RewriteCaughtMessage ==
    caught.phase = "answered" =>
       LET prefixed == caught.method \in {"act", "observe", "extract"}
           prefix == CASE caught.method = "act" -> <<"Act failed: ">>
                       [] caught.method = "observe" -> <<"Observe failed: ">>
                       [] caught.method = "extract" -> <<"Extract failed: ">>
                       [] OTHER -> <<>>
       IN /\ caught.error =
                (IF Stable(caught.thrown) # <<>> THEN Stable(caught.thrown)
                 ELSE IF prefixed THEN prefix \o caught.thrown
                 ELSE IF caught.thrown = <<>> THEN <<"Unknown error">>
                 ELSE caught.thrown)
          /\ caught.details =
                (IF prefixed THEN <<"Error", ": ">> \o prefix \o caught.thrown
                 ELSE IF ~caught.hasStack THEN <<"No additional details">>
                 ELSE IF caught.thrown = <<>> THEN <<caught.name>>
                 ELSE <<caught.name, ": ">> \o caught.thrown)
          /\ (/\ caught.method = "act"
              /\ HasTimeoutExceeded(caught.thrown)
              /\ ~Includes(caught.thrown, ClosedText)) =>
                caught.error = <<"Navigation timeout", " exceeded">>

\* C30 witness: an act error with a message that contains none of the
\* known texts has been answered with the prefixed message and the first
\* line of the stack of the wrapping error.
C30_Witness ==
    /\ caught.phase = "answered"
    /\ caught.method = "act"
    /\ caught.thrown = <<"boom", " exceeded">>
    /\ caught.error = <<"Act failed: ", "boom", " exceeded">>
    /\ caught.name = "TimeoutError"
    /\ caught.details =
          <<"Error", ": ", "Act failed: ", "boom", " exceeded">>

\* The level names a child may write, with the level the supervisor writes
\* for each.
KeptLevel(word) ==
    CASE word = "DEBUG" -> "INFO"
      [] word = "CRITICAL" -> "ERROR"
      [] OTHER -> word

\* The first level name in a message, "" when it has none.
Severity(message) ==
    LET hits == {i \in 1..Len(message) :
                   message[i] \in {"DEBUG", "INFO", "WARNING", "ERROR",
                                   "CRITICAL"}}
    IN IF hits = {} THEN ""
       ELSE message[CHOOSE i \in hits : \A j \in hits : i <= j]

\* The message written with the level and the service and without a
\* timestamp of the supervisor.
Tagged(level, service, message) ==
    <<"[" \o level \o "]", "[" \o service \o "]">> \o message

\* C31 (as stated): output that begins with a timestamp and has a level
\* name is written with the child's level (DEBUG as INFO, CRITICAL as
\* ERROR) and the service, without a timestamp of the supervisor; all other
\* output is written behind the supervisor's timestamp, with the level
\* found in it or INFO, and the service.
C31_ClassifyChildLine ==
    logged.phase = "written" =>
       LET m == logged.message
           level == IF Severity(m) = "" THEN "INFO" ELSE KeptLevel(Severity(m))
       IN IF m[1] = TimestampWord /\ Severity(m) # ""
          THEN logged.out = Tagged(level, logged.service, m)
          ELSE logged.out = <<"[now]">> \o Tagged(level, logged.service, m)

\* C31 (amended): output that begins with a timestamp is written without a
\* timestamp of the supervisor, with the service and with the level found
\* in it (DEBUG as INFO, CRITICAL as ERROR) or INFO when it has none; output
\* that does not begin with a timestamp is written behind the supervisor's
\* timestamp, with the level found in the same way, and the service.
C31_ClassifyByTimestamp ==
    logged.phase = "written" =>
       LET m == logged.message
           level == IF Severity(m) = "" THEN "INFO" ELSE KeptLevel(Severity(m))
       IN IF m[1] = TimestampWord
          THEN logged.out = Tagged(level, logged.service, m)
          ELSE logged.out = <<"[now]">> \o Tagged(level, logged.service, m)

\* C31 witness: backend output that begins with a timestamp and has no
\* level name has been written as INFO without a timestamp of the
\* supervisor.
C31_Witness ==
    /\ logged.phase = "written"
    /\ logged.service = "BACKEND"
    /\ logged.message = <<TimestampWord, "started">>
    /\ logged.out = <<"[INFO]", "[BACKEND]", TimestampWord, "started">>

\* A step in which a process of service s is spawned.
SpawnStep(s) == Len(handles'[s]) > Len(handles[s])

\* C32 as stated: once shutdown() has set isShuttingDown, no step spawns a
\* process of any service.
C32_NoSpawnDuringShutdown ==
    [][isShuttingDown => \A s \in Services : ~SpawnStep(s)]_vars

\* The status that the caller of kind k passes to shutdown().
Requested(k) == IF k = "signal" THEN 0 ELSE 1

\* C33: the step that starts the shutdown fixes the exit status to the one
\* its trigger asked for; no later step, whatever trigger it brings,
\* changes it; and the supervisor exits with that status.
C33_FirstTriggerStatusWins ==
    /\ [][(~isShuttingDown /\ isShuttingDown') =>
             exitCode' = Requested(firstTrigger')]_vars
    /\ [][isShuttingDown =>
             exitCode' = exitCode /\ firstTrigger' = firstTrigger]_vars
    /\ [](exited => exitStatus = exitCode)

\* C33 witness: a shutdown started by a fault was followed by a second
\* trigger, and the supervisor has exited with status 1.
C33_Witness ==
    /\ exited
    /\ firstTrigger = "fault"
    /\ triggers = 2
    /\ exitCode = 1
    /\ exitStatus = 1

\* C34: once shutdown() has started its sequence, process.exit is reached:
\* every race it waits for is settled by the 'exit' of its handle or by its
\* 10 second timer.
C34_ShutdownEndsInExit ==
    /\ isShuttingDown ~> exited
    /\ [](exited => \A s \in Services : shutdownPromises[s].st # "pending")

\* C34 witness: the supervisor has exited after a shutdown in which one
\* race was settled by its timer, for a handle that had exited before the
\* shutdown began and was waiting for its restart, and another by an 'exit'.
C34_Witness ==
    /\ exited
    /\ \E s \in Services :
          /\ shutdownPromises[s].st = "timeout"
          /\ restartTimers[s] > 0
          /\ Tracked(s).signals = <<>>
    /\ \E s \in Services : shutdownPromises[s].st = "exit"

\* C35: of the processes spawned for a service at most one is running, and
\* it is the one in the process table; a service has at most one restart
\* timer pending, and none while its process is running; a spawn finds no
\* process of its service running, so the SIGTERM of startProcess reaches
\* none; and no process is sent a signal before shutdown() has begun.
C35_OneLiveChildPerService ==
    /\ [](\A s \in Services :
            /\ \A i \in 1..Len(handles[s]) :
                  /\ handles[s][i].alive => i = processes[s]
                  /\ handles[s][i].signals # <<>> => isShuttingDown
            /\ restartTimers[s] <= 1
            /\ (restartTimers[s] = 1 /\ processes[s] # 0) =>
                  ~Tracked(s).alive)
    /\ [][\A s \in Services :
             SpawnStep(s) =>
                /\ \A i \in 1..Len(handles[s]) : ~handles[s][i].alive
                /\ \A i \in 1..Len(handles[s]) :
                      handles'[s][i] = handles[s][i]]_vars

\* C35 witness: a service is running in its third process, the two before
\* it have exited without having been sent a signal, and two restarts are
\* counted.
C35_Witness ==
    \E s \in Services :
       /\ Len(handles[s]) = 3
       /\ processes[s] = 3
       /\ handles[s][3].alive
       /\ ~handles[s][1].alive /\ handles[s][1].signals = <<>>
       /\ ~handles[s][2].alive /\ handles[s][2].signals = <<>>
       /\ restartCounts[s] = 2
       /\ ~isShuttingDown

\* C36 as stated: over a run of the registry close() is called at most once
\* on the instance of any session, whatever DELETE requests, cleanup
\* requests and gracefulShutdown calls there are.
C36_CloseRequestedOnce ==
    \A l \in LocalIds : registryHist.closeCalls[l] <= 1

\* C37 as stated: a creation handler whose stagehand.init() returned either
\* stores the instance in the map or calls close() on it; it calls close()
\* when the instance has no session identifier.
C37_FailedCreationCloses ==
    [][(InitSettlesStep("ok") \/ InitSettlesStep("no_provider_id")) =>
          \/ /\ Len(sessions') = Len(sessions) + 1
             /\ sessions'[Len(sessions')].bbSessionId = response'.sessionId
          \/ \E i \in 1..Len(registryHist'.settled.calls) :
                registryHist'.settled.calls[i] = "close"]_vars

\* C38: neither step of an action handler changes the map: not the one in
\* which the request arrives (answered 404, 400 for an unknown method, or
\* left waiting for the page), nor the one in which the call into the page
\* settles (answered 200, or 500 for an error of the page).
C38_ActionKeepsMap ==
    /\ [][\A a \in Addrs :
             RequestStep("action", a) =>
                /\ Rejected(a, 404) \/ Rejected(a, 400) \/ actions' # actions
                /\ sessions' = sessions
                /\ minted' = minted]_vars
    /\ [][\A a \in actions :
             ActionSettlesStep(a) =>
                /\ response'.status \in {200, 500}
                /\ sessions' = sessions
                /\ minted' = minted]_vars

\* C38 witness: an action request for a session in the map was answered
\* 500 after its call into the page threw, and the session is in the map.
C38_Witness ==
    /\ registryHist.last.req = "action"
    /\ Len(registryHist.last.remote) = 1
    /\ registryHist.settled.n = registryHist.requests
    /\ registryHist.settled.result = "threw"
    /\ response.req = "action"
    /\ response.status = 500
    /\ Len(sessions) = 2
    /\ Resolve(sessions, registryHist.last.addr) # NoSession

\* C39: every record of the map carries a Browserbase identifier, and the
\* lookup by that identifier finds the record; a record enters the map only
\* in a creation step whose stagehand.init() returned with an identifier,
\* which is the one stored and answered.
C39_RecordsHaveRemoteId ==
    /\ [](\A i \in 1..Len(sessions) :
            /\ sessions[i].bbSessionId # <<>>
            /\ Scan(sessions, sessions[i].bbSessionId) = {i})
    /\ [][\A l \in LocalIds :
             (~InMap(sessions, l) /\ InMap(sessions', l)) =>
                /\ InitSettlesStep("ok")
                /\ response'.sessionId # <<>>
                /\ Resolve(sessions', response'.sessionId) = l]_vars

\* C39 witness: the second of two records is found by a lookup with the
\* Browserbase identifier its creation was answered with.
C39_Witness ==
    /\ Len(sessions) = 2
    /\ InitSettled("ok")
    /\ response.status = 200
    /\ response.sessionId # <<>>
    /\ Get(sessions, response.sessionId) = {}
    /\ Resolve(sessions, response.sessionId) = sessions[2].localId
    /\ Resolve(sessions, response.sessionId) = response.addr

====
